---- MODULE Spec2Model ----
(***************************************************************************)
(* The capability dispatch layer and the tool-calling conversation loop of *)
(* the scholarship copilot backend (src/web/backend/app).                  *)
(*                                                                         *)
(* Python strings that are built or compared are sequences of atoms        *)
(* (<<"Hello", "\n", "World">>); a value returned by a call is the record  *)
(* [exc, value], exc being the class of the exception that left the call   *)
(* ("none" when it returned).                                              *)
(***************************************************************************)
EXTENDS Integers, Sequences, FiniteSets, TLC

None == "None"
NoExc == "none"

Returned(v) == [exc |-> NoExc, value |-> v]
Raised(e) == [exc |-> e, value |-> None]

(***************************************************************************)
(* Bounds of the model.                                                    *)
(***************************************************************************)
\* most times the initialize() of one provider object is entered
MaxSetups == 2

\* most entries of a history that add_message and add_interaction are let
\* extend, and exchanges of a history handed to save_session
MaxStoredTurns == 2
MaxInteractions == 6
\* the clock runs from 0 to MaxTime
MaxTime == 2
\* session_timeout, in ticks of the model's clock
SessionTimeout == 1
\* most tool_use blocks the responses to one query hold together, unless
\* every response is the plain request (which may then go on to the
\* iteration bound)
MaxRequests == 2

\* the rounds of tool requests the model service makes in one of several
\* queries in progress
MaxRounds == 1

\* the largest max_retries handed to _chat_with_retry
MaxRetriesArg == 4

\* most items handed to ProcessingPool.map_unordered, and the largest
\* num_workers a pool is constructed with
MaxItems == 3
MaxWorkers == 2

\* most numbers given after --steps on the command line of the orchestrator
MaxStepArgs == 3

(***************************************************************************)
(* Exception classes that occur, with Python's class hierarchy.            *)
(***************************************************************************)
ExcParent(e) ==
    CASE e = "JSONDecodeError" -> "ValueError"
      [] e = "KeyError" -> "LookupError"
      [] OTHER -> "Exception"

RECURSIVE IsInstance(_, _)
IsInstance(e, cls) ==
    IF e = cls THEN TRUE
    ELSE IF e = "Exception" THEN FALSE
    ELSE IsInstance(ExcParent(e), cls)

(***************************************************************************)
(* Providers (MCPServer) and their tools.                                  *)
(***************************************************************************)
ServerOrder == <<"application_data", "analysis", "context", "processor">>
ServerNames == {ServerOrder[i] : i \in 1..Len(ServerOrder)}

\* The providers of src register thirteen distinct names: provider_set is
\* "fixed".  Start-up can only fail with other providers, so two more sets
\* are drawn: in "collision" the processor provider also registers a name of
\* the record-access provider, in "duplicate" the context provider registers
\* one of its names twice.
VARIABLE provider_set

ProviderSets == {"fixed", "collision", "duplicate"}

\* the names each provider's initialize() registers, in order
ServerToolNames ==
    [application_data |-> <<"get_application", "search_applications",
                            "list_applications">>,
     analysis |-> <<"analyze_application", "compare_applications",
                    "generate_report">>,
     context |-> <<"get_context", "update_context", "get_current_application",
                   "set_current_application">>
                 \o (IF provider_set = "duplicate" THEN <<"get_context">>
                     ELSE <<>>),
     processor |-> <<"get_processor_status", "verify_application_processed",
                     "get_step_output">>
                   \o (IF provider_set = "collision" THEN <<"get_application">>
                       ELSE <<>>)]

ToolSchema(name) ==
    [name |-> name,
     description |-> <<"description", name>>,
     input_schema |-> <<"input", name>>,
     return_schema |-> <<"return", name>>]

to_dict(schema) ==
    [name |-> schema.name,
     description |-> schema.description,
     inputSchema |-> schema.input_schema,
     returnSchema |-> schema.return_schema]

\* MCPServer.__init__: no tool, no handler, not initialized; setups counts
\* the times the provider's initialize() has been entered
NewServer(name) ==
    [name |-> name, tools |-> <<>>, handlers |-> {}, initialized |-> FALSE,
     setups |-> 0]

\* <Provider>.initialize() is entered
BeginSetup(server) == [server EXCEPT !.setups = @ + 1]

ToolNamesOf(server) == {server.tools[i].name : i \in 1..Len(server.tools)}

\* register_tool putting the new schema in the place of the one registered
\* under the name
register_tool_replacing(server, schema) ==
    IF schema.name \in ToolNamesOf(server)
    THEN [exc |-> NoExc,
          value |-> [server EXCEPT !.tools =
                        [i \in 1..Len(@) |-> IF @[i].name = schema.name
                                             THEN schema ELSE @[i]]]]
    ELSE [exc |-> NoExc,
          value |-> [server EXCEPT !.tools = Append(@, schema),
                                   !.handlers = @ \cup {schema.name}]]

\* MCPServer.register_tool: value is the server afterwards
register_tool(server, schema) ==
    IF schema.name \in ToolNamesOf(server)
    THEN [exc |-> "ValueError", value |-> server]
    ELSE [exc |-> NoExc,
          value |-> [server EXCEPT !.tools = Append(@, schema),
                                   !.handlers = @ \cup {schema.name}]]

RECURSIVE RegisterTools(_, _, _)
RegisterTools(server, names, i) ==
    IF i > Len(names) THEN [exc |-> NoExc, value |-> server]
    ELSE LET r == register_tool(server, ToolSchema(names[i]))
         IN  IF r.exc # NoExc THEN r ELSE RegisterTools(r.value, names, i + 1)

\* AnalysisMCPServer.initialize, its first lines: d is what initializing the
\* shared record-access provider gave
DataServerInitialized(srv, d) ==
    IF d.exc # NoExc
    THEN [exc |-> d.exc, value |-> [srv EXCEPT !["application_data"] = d.value]]
    ELSE [exc |-> NoExc,
          value |-> [srv EXCEPT !["application_data"] =
                        [d.value EXCEPT !.initialized = TRUE]]]

\* the analysis provider initializing the provider it holds without looking
\* at its _initialized
InitializeDependency_unguarded(srv, name) ==
    IF name = "analysis"
    THEN DataServerInitialized(srv,
             RegisterTools(BeginSetup(srv["application_data"]),
                           ServerToolNames["application_data"], 1))
    ELSE [exc |-> NoExc, value |-> srv]

\* what a provider's initialize() does before it registers its own tools
InitializeDependency(srv, name) ==
    IF name = "analysis" /\ ~srv["application_data"].initialized
    THEN DataServerInitialized(srv,
             RegisterTools(BeginSetup(srv["application_data"]),
                           ServerToolNames["application_data"], 1))
    ELSE [exc |-> NoExc, value |-> srv]

\* srv with the provider called name replaced by r's
StoreServer(srv, name, r) ==
    [exc |-> r.exc, value |-> [srv EXCEPT ![name] = r.value]]

RegisterOwnTools(dep, name) ==
    IF dep.exc # NoExc THEN dep
    ELSE StoreServer(dep.value, name,
                     RegisterTools(dep.value[name], ServerToolNames[name], 1))

\* <Provider>.initialize() of the provider called name; srv maps every
\* provider name to its object and value is that map afterwards
ServerInitialize(srv, name) ==
    RegisterOwnTools(
        InitializeDependency([srv EXCEPT ![name] = BeginSetup(@)], name), name)

\* self._initialized = True, once initialize() has returned
MarkInitialized(r, name) ==
    IF r.exc # NoExc THEN r
    ELSE [exc |-> NoExc, value |-> [r.value EXCEPT ![name].initialized = TRUE]]

\* _ensure_initialized without its last line, self._initialized = True
ensure_initialized_unflagged(srv, name) ==
    IF ~srv[name].initialized
    THEN ServerInitialize(srv, name)
    ELSE [exc |-> NoExc, value |-> srv]

\* MCPServer._ensure_initialized
ensure_initialized(srv, name) ==
    IF ~srv[name].initialized
    THEN MarkInitialized(ServerInitialize(srv, name), name)
    ELSE [exc |-> NoExc, value |-> srv]

(***************************************************************************)
(* Arguments of a tool call and what the handler makes of them.  An        *)
(* arguments value is "notdict" (not a dictionary) or a dictionary, told   *)
(* apart by what the handler does with it.                                 *)
(***************************************************************************)
DictArgs == {"ok", "rejected", "raises", "circular", "badkey"}
ArgValues == DictArgs \cup {"notdict"}

\* await handler(**arguments)
Handler(tool_name, arguments) ==
    CASE arguments = "ok" -> Returned(<<"record", tool_name>>)
      [] arguments = "rejected" -> Raised("TypeError")
      [] arguments = "raises" -> Raised("RuntimeError")
      [] arguments = "circular" -> Returned(<<"circular", tool_name>>)
      [] arguments = "badkey" -> Returned(<<"badkey", tool_name>>)

\* MCPServer.handle_tool_call after _ensure_initialized gave e
RunHandler(e, name, tool_name, arguments) ==
    IF e.exc # NoExc THEN [exc |-> e.exc, value |-> None, srv |-> e.value]
    ELSE IF tool_name \notin e.value[name].handlers
    THEN [exc |-> "ValueError", value |-> None, srv |-> e.value]
    ELSE LET h == Handler(tool_name, arguments)
         IN  IF h.exc = NoExc
             THEN [exc |-> NoExc, value |-> h.value, srv |-> e.value]
             ELSE \* except TypeError, except Exception: both raise RuntimeError
                  [exc |-> "RuntimeError", value |-> None, srv |-> e.value]

\* MCPServer.handle_tool_call: [exc, value, srv]
handle_tool_call(srv, name, tool_name, arguments) ==
    RunHandler(ensure_initialized(srv, name), name, tool_name, arguments)

\* json.dumps(result, indent=2, default=str)
json_dumps(result) ==
    CASE result[1] = "circular" -> Raised("ValueError")
      [] result[1] = "badkey" -> Raised("TypeError")
      [] OTHER -> Returned([json |-> result])

(***************************************************************************)
(* ToolRegistry: tools maps a name to (server_name, tool_schema) and order *)
(* is the order of its keys (a dict keeps insertion order); server_tools   *)
(* maps a server name to the list of its tool names.                       *)
(***************************************************************************)
EmptyRegistry == [tools |-> <<>>, order |-> <<>>, server_tools |-> <<>>]

\* the entry of a registered name replaced and the name listed once more
registry_register_overwriting(reg, server_name, tool_name, tool_schema) ==
    [exc |-> NoExc,
     value |->
       [tools |->
          [n \in DOMAIN reg.tools \cup {tool_name} |->
             IF n = tool_name
             THEN [server_name |-> server_name, tool_schema |-> tool_schema]
             ELSE reg.tools[n]],
        order |-> IF tool_name \in DOMAIN reg.tools THEN reg.order
                  ELSE Append(reg.order, tool_name),
        server_tools |->
          [s \in DOMAIN reg.server_tools \cup {server_name} |->
             IF s = server_name
             THEN (IF s \in DOMAIN reg.server_tools
                   THEN Append(reg.server_tools[s], tool_name)
                   ELSE <<tool_name>>)
             ELSE reg.server_tools[s]]]]

\* ToolRegistry.register: value is the registry afterwards; "" is the empty
\* string
registry_register(reg, server_name, tool_name, tool_schema) ==
    IF server_name = "" \/ tool_name = ""
    THEN [exc |-> "ValueError", value |-> reg]
    ELSE IF tool_name \in DOMAIN reg.tools
    THEN [exc |-> "ValueError", value |-> reg]
    ELSE IF {"name", "description", "inputSchema", "returnSchema"}
              \ DOMAIN tool_schema # {}
    THEN [exc |-> "ValueError", value |-> reg]
    ELSE [exc |-> NoExc,
          value |->
            [tools |->
               [n \in DOMAIN reg.tools \cup {tool_name} |->
                  IF n = tool_name
                  THEN [server_name |-> server_name, tool_schema |-> tool_schema]
                  ELSE reg.tools[n]],
             order |-> Append(reg.order, tool_name),
             server_tools |->
               [s \in DOMAIN reg.server_tools \cup {server_name} |->
                  IF s = server_name
                  THEN (IF s \in DOMAIN reg.server_tools
                        THEN Append(reg.server_tools[s], tool_name)
                        ELSE <<tool_name>>)
                  ELSE reg.server_tools[s]]]]

\* get_server_for_tool falling back to the first provider for an unknown name
get_server_for_tool_fallback(reg, tool_name) ==
    IF tool_name \in DOMAIN reg.tools THEN reg.tools[tool_name].server_name
    ELSE ServerOrder[1]

\* ToolRegistry.get_server_for_tool
get_server_for_tool(reg, tool_name) ==
    IF tool_name \in DOMAIN reg.tools THEN reg.tools[tool_name].server_name
    ELSE None

\* ToolRegistry.list_tool_names
list_tool_names(reg) == reg.order

(***************************************************************************)
(* MCPClientManager.                                                       *)
(***************************************************************************)
RECURSIVE RegistryRegisterAll(_, _, _, _)
\* for tool in tools: self.registry.register(...)
RegistryRegisterAll(reg, server_name, tools, i) ==
    IF i > Len(tools) THEN [exc |-> NoExc, value |-> reg]
    ELSE LET r == registry_register(reg, server_name, tools[i].name,
                                    to_dict(tools[i]))
         IN  IF r.exc # NoExc THEN r
             ELSE RegistryRegisterAll(r.value, server_name, tools, i + 1)

\* tools = await server.get_tools(); for tool in tools: registry.register
RegisterServer(srv, reg, name) ==
    LET b == RegistryRegisterAll(reg, name, srv[name].tools, 1)
    IN  [exc |-> IF b.exc # NoExc THEN "RuntimeError" ELSE NoExc,
         servers |-> srv, registry |-> b.value]

\* the loop body swallowing what the provider or the registry raises
InitializeServer_lenient(srv, reg, name) ==
    LET a == ServerInitialize(srv, name)
    IN  IF a.exc # NoExc
        THEN [exc |-> NoExc, servers |-> a.value, registry |-> reg]
        ELSE [RegisterServer([a.value EXCEPT ![name].initialized = TRUE],
                             reg, name) EXCEPT !.exc = NoExc]

\* MCPClientManager.initialize, one pass of
\* for server_name, server in self.servers.items(): [exc, servers, registry];
\* whatever is raised leaves initialize() as RuntimeError
InitializeServer(srv, reg, name) ==
    LET a == ServerInitialize(srv, name)
    IN  IF a.exc # NoExc
        THEN [exc |-> "RuntimeError", servers |-> a.value, registry |-> reg]
        ELSE RegisterServer([a.value EXCEPT ![name].initialized = TRUE],
                            reg, name)

ErrorEnvelope(kind, tool_name) == [error |-> kind, tool_name |-> tool_name]

\* call_tool's except clauses without the last one, except Exception
except_clause_specific(e) ==
    IF IsInstance(e, "JSONDecodeError") THEN "JSON serialization error"
    ELSE IF IsInstance(e, "ValueError") THEN "Validation error"
    ELSE IF IsInstance(e, "RuntimeError") THEN "Tool execution error"
    ELSE None

\* the except clauses of call_tool, in order; None when no clause matches
except_clause(e) ==
    IF IsInstance(e, "JSONDecodeError") THEN "JSON serialization error"
    ELSE IF IsInstance(e, "ValueError") THEN "Validation error"
    ELSE IF IsInstance(e, "RuntimeError") THEN "Tool execution error"
    ELSE IF IsInstance(e, "Exception") THEN "Unexpected error"
    ELSE None

\* result_json = json.dumps(result, ...) for what handle_tool_call of the
\* provider server_name gave
Serialize(h, server_name) ==
    IF h.exc # NoExc
    THEN [exc |-> h.exc, value |-> None, srv |-> h.srv, server |-> server_name]
    ELSE LET j == json_dumps(h.value)
         IN  [exc |-> j.exc, value |-> j.value, srv |-> h.srv,
              server |-> server_name]

\* call_tool once the registry has named server_name as the tool's server
RouteCall(srv, tool_name, arguments, server_name) ==
    IF server_name = None
    THEN [exc |-> NoExc, value |-> ErrorEnvelope("Tool not found", tool_name),
          srv |-> srv, server |-> None]
    ELSE IF server_name \notin DOMAIN srv
    THEN [exc |-> NoExc, value |-> ErrorEnvelope("Server not found", tool_name),
          srv |-> srv, server |-> None]
    ELSE Serialize(handle_tool_call(srv, server_name, tool_name, arguments),
                   server_name)

\* the try block of call_tool
TryCall(reg, srv, tool_name, arguments) ==
    IF arguments \notin DictArgs
    THEN [exc |-> "ValueError", value |-> None, srv |-> srv, server |-> None]
    ELSE RouteCall(srv, tool_name, arguments, get_server_for_tool(reg, tool_name))

\* the except clauses of call_tool applied to what the try block gave
Recover(body, tool_name) ==
    IF body.exc = NoExc THEN body
    ELSE IF except_clause(body.exc) = None THEN body
    ELSE [exc |-> NoExc,
          value |-> ErrorEnvelope(except_clause(body.exc), tool_name),
          srv |-> body.srv, server |-> body.server]

\* MCPClientManager.call_tool: [exc, value, srv, server]; value is the JSON
\* text returned, srv the providers afterwards, and server the provider whose
\* handle_tool_call was awaited (None when none was)
call_tool(reg, srv, tool_name, arguments) ==
    Recover(TryCall(reg, srv, tool_name, arguments), tool_name)

RECURSIVE ClaudeFormat(_, _, _)
ClaudeFormat(reg, names, i) ==
    IF i > Len(names) THEN <<>>
    ELSE LET tool_schema == reg.tools[names[i]].tool_schema
         IN  <<[name |-> tool_schema.name,
                description |-> tool_schema.description,
                input_schema |-> tool_schema.inputSchema]>>
             \o ClaudeFormat(reg, names, i + 1)

\* get_available_tools giving the model the return schema as input schema
get_available_tools_return_schema(reg) ==
    [i \in 1..Len(reg.order) |->
        [name |-> reg.tools[reg.order[i]].tool_schema.name,
         description |-> reg.tools[reg.order[i]].tool_schema.description,
         input_schema |-> reg.tools[reg.order[i]].tool_schema.returnSchema]]

\* MCPClientManager.get_available_tools
get_available_tools(reg) == ClaudeFormat(reg, reg.order, 1)

\* MCPClientManager.get_tool
get_tool(reg, tool_name) ==
    IF tool_name \in DOMAIN reg.tools THEN reg.tools[tool_name].tool_schema
    ELSE None

\* mcp_client.get_tools(), which CopilotAgent.process_query and
\* ClaudeClient.process_tool_calls await.  MCPClientManager defines no such
\* method; where the client object has one it is describe_capabilities:
\* the model-facing schema of every registry entry.
get_tools(reg) == get_available_tools(reg)

(***************************************************************************)
(* SessionManager.  sessions maps the ids of the stored sessions to their  *)
(* data; now is datetime.utcnow().                                         *)
(***************************************************************************)
SessionIds == {"s1"}
UserIds == {"u1"}

NewSession(session_id, user_id, now) ==
    [id |-> session_id,
     user_id |-> user_id,
     context |-> [current_application |-> None, preferences |-> <<>>],
     history |-> <<>>,
     created_at |-> now,
     last_accessed |-> now]

\* delete_session leaving the session where it is
delete_session_keeping(ss, session_id) == ss

\* SessionManager.delete_session: the sessions afterwards
delete_session(ss, session_id) ==
    [s \in DOMAIN ss \ {session_id} |-> ss[s]]

\* load_session without its expiry check
load_session_no_expiry(ss, session_id, now) ==
    IF session_id \notin DOMAIN ss
    THEN [exc |-> "ValueError", value |-> None, sessions |-> ss]
    ELSE LET ss2 == [ss EXCEPT ![session_id].last_accessed = now]
         IN  [exc |-> NoExc, value |-> ss2[session_id], sessions |-> ss2]

\* SessionManager.load_session (and its alias get_session):
\* [exc, value, sessions], value the session returned
load_session(ss, session_id, now) ==
    IF session_id \notin DOMAIN ss
    THEN [exc |-> "ValueError", value |-> None, sessions |-> ss]
    ELSE IF now - ss[session_id].last_accessed > SessionTimeout
    THEN [exc |-> "ValueError", value |-> None,
          sessions |-> delete_session(ss, session_id)]
    ELSE LET ss2 == [ss EXCEPT ![session_id].last_accessed = now]
         IN  [exc |-> NoExc, value |-> ss2[session_id], sessions |-> ss2]

\* SessionManager.update_context: [exc, sessions]
update_context(ss, session_id, key, value, now) ==
    LET l == load_session(ss, session_id, now)
    IN  IF l.exc # NoExc THEN [exc |-> l.exc, sessions |-> l.sessions]
        ELSE [exc |-> NoExc,
              sessions |->
                [l.sessions EXCEPT
                   ![session_id].context =
                       [k \in DOMAIN @ \cup {key} |->
                          IF k = key THEN value ELSE @[k]],
                   ![session_id].last_accessed = now]]

\* SessionManager.save_session: [exc, sessions]; session.update(data) puts
\* every key of data in the place of the session's
save_session(ss, session_id, data, now) ==
    IF session_id \notin DOMAIN ss THEN [exc |-> "ValueError", sessions |-> ss]
    ELSE [exc |-> NoExc,
          sessions |->
            [ss EXCEPT ![session_id] =
               [k \in DOMAIN @ \cup DOMAIN data |->
                  CASE k = "id" -> session_id
                    [] k = "user_id" -> @.user_id
                    [] k = "created_at" -> @.created_at
                    [] k = "last_accessed" -> now
                    [] OTHER -> IF k \in DOMAIN data THEN data[k] ELSE @[k]]]]

\* cleanup_expired deleting the sessions whose time is up to the timeout too
cleanup_expired_eager(ss, now) ==
    LET expired_sessions ==
          {s \in DOMAIN ss : now - ss[s].last_accessed >= SessionTimeout}
    IN  [exc |-> NoExc, value |-> Cardinality(expired_sessions),
         sessions |-> [s \in DOMAIN ss \ expired_sessions |-> ss[s]]]

\* SessionManager.cleanup_expired: [exc, value, sessions]
cleanup_expired(ss, now) ==
    LET expired_sessions ==
          {s \in DOMAIN ss : now - ss[s].last_accessed > SessionTimeout}
    IN  [exc |-> NoExc, value |-> Cardinality(expired_sessions),
         sessions |-> [s \in DOMAIN ss \ expired_sessions |-> ss[s]]]

\* limit of SessionManager.get_messages, the only window on a history that
\* the code has
HistoryWindow == 10

\* list[start:], as Python slices: a negative start counts from the end and
\* a start outside the list is brought to its nearest end
SliceFrom(list, start) ==
    LET n == Len(list)
        lo == IF start < 0 THEN (IF n + start < 0 THEN 0 ELSE n + start)
              ELSE (IF start > n THEN n ELSE start)
    IN  SubSeq(list, lo + 1, n)

\* list[:stop]
SliceTo(list, stop) ==
    LET n == Len(list)
        hi == IF stop < 0 THEN (IF n + stop < 0 THEN 0 ELSE n + stop)
              ELSE (IF stop > n THEN n ELSE stop)
    IN  SubSeq(list, 1, hi)

\* get_messages returning the oldest entries
get_messages_oldest(ss, session_id, limit, now) ==
    LET l == load_session(ss, session_id, now)
    IN  IF l.exc # NoExc
        THEN [exc |-> l.exc, value |-> None, sessions |-> l.sessions]
        ELSE [exc |-> NoExc,
              value |-> IF limit > 0 THEN SliceTo(l.value.history, limit)
                        ELSE l.value.history,
              sessions |-> l.sessions]

\* SessionManager.get_messages: [exc, value, sessions]
get_messages(ss, session_id, limit, now) ==
    LET l == load_session(ss, session_id, now)
    IN  IF l.exc # NoExc
        THEN [exc |-> l.exc, value |-> None, sessions |-> l.sessions]
        ELSE [exc |-> NoExc,
              value |-> IF limit > 0 THEN SliceFrom(l.value.history, 0 - limit)
                        ELSE l.value.history,
              sessions |-> l.sessions]

\* SessionManager.add_message: [exc, sessions]
add_message(ss, session_id, role, content, now) ==
    IF role \notin {"user", "assistant"}
    THEN [exc |-> "ValueError", sessions |-> ss]
    ELSE LET l == load_session(ss, session_id, now)
         IN  IF l.exc # NoExc THEN [exc |-> l.exc, sessions |-> l.sessions]
             ELSE [exc |-> NoExc,
                   sessions |->
                     [l.sessions EXCEPT
                        ![session_id].history =
                            Append(@, [role |-> role, content |-> content,
                                       timestamp |-> now]),
                        ![session_id].last_accessed = now]]

\* add_interaction storing the user message and then failing on the second
\* message, whose role is not one add_message accepts
add_interaction_partial(ss, session_id, query, response, now) ==
    LET u == add_message(ss, session_id, "user", query, now)
    IN  IF u.exc # NoExc THEN u
        ELSE add_message(u.sessions, session_id, "agent", response, now)

\* add_interaction storing the response before the query
add_interaction_swapped(ss, session_id, query, response, now) ==
    LET u == add_message(ss, session_id, "assistant", response, now)
    IN  IF u.exc # NoExc THEN u
        ELSE add_message(u.sessions, session_id, "user", query, now)

\* SessionManager.add_interaction: [exc, sessions]
add_interaction(ss, session_id, query, response, now) ==
    LET u == add_message(ss, session_id, "user", query, now)
    IN  IF u.exc # NoExc THEN u
        ELSE add_message(u.sessions, session_id, "assistant", response, now)

(***************************************************************************)
(* Responses of the model service.  A response's content is a list of      *)
(* blocks; the id of a tool_use block is <<c, j>>, the j-th request of the *)
(* c-th model call of the query.                                           *)
(***************************************************************************)
TextBlock(t) == [type |-> "text", text |-> t]
ToolUse(id, name, input) ==
    [type |-> "tool_use", id |-> id, name |-> name, input |-> input]

Queries == {<<"q1">>}

\* the (name, arguments) pairs the model asks for; the input of a tool_use
\* block is a JSON object, so always a dictionary
ToolReqs ==
    ({"get_application"} \X {"ok", "rejected", "raises", "circular"})
        \cup {<<"delete_everything", "ok">>}
PlainReq == <<"get_application", "ok">>

Batches == UNION {[1..k -> ToolReqs] : k \in 1..MaxRequests}
BlocksOf(c, batch) ==
    [j \in 1..Len(batch) |-> ToolUse(<<c, j>>, batch[j][1], batch[j][2])]

TextResponses ==
    {<<>>,
     <<TextBlock(<<"Hello">>)>>,
     <<TextBlock(<<"Hello">>), TextBlock(<<"World">>)>>}
PlainResponse(c) == BlocksOf(c, <<PlainReq>>)
RichResponses(c) ==
    {BlocksOf(c, b) : b \in Batches}
        \cup {<<TextBlock(<<"Hello">>)>> \o BlocksOf(c, <<r>>) : r \in ToolReqs}

\* transport failures of the model service
TransportErrors == {"RateLimitError", "APIConnectionError", "APIError"}

\* max_iterations of process_tool_calls
max_iterations == 10

\* the loop without its bound: while True
while_test_unbounded(it) == TRUE

\* the loop test off by one: while iteration <= max_iterations
while_test_inclusive(it) == it <= max_iterations

\* while iteration < max_iterations
while_test(it) == it < max_iterations

RECURSIVE JoinLines(_)
\* "\n".join(texts)
JoinLines(texts) ==
    IF texts = <<>> THEN <<>>
    ELSE IF Len(texts) = 1 THEN texts[1]
    ELSE texts[1] \o <<"\n">> \o JoinLines(Tail(texts))

IsToolUse(block) == block.type = "tool_use"
IsText(block) == block.type = "text"

\* [block for block in response.content if block.type == "tool_use"]
tool_use_blocks(content) == SelectSeq(content, IsToolUse)

\* _extract_text_from_response returning the first text block only
extract_text_first_block(content) ==
    LET blocks == SelectSeq(content, IsText)
    IN  IF blocks = <<>> THEN <<>> ELSE blocks[1].text

\* ClaudeClient._extract_text_from_response
extract_text_from_response(content) ==
    LET blocks == SelectSeq(content, IsText)
    IN  JoinLines([i \in 1..Len(blocks) |-> blocks[i].text])

(***************************************************************************)
(* CopilotAgent.                                                           *)
(***************************************************************************)
RECURSIVE ReplayHistory(_, _)
\* for interaction in history: the messages or KeyError
ReplayHistory(history, i) ==
    IF i > Len(history) THEN Returned(<<>>)
    ELSE IF "query" \notin DOMAIN history[i] THEN Raised("KeyError")
    ELSE IF "response" \notin DOMAIN history[i] THEN Raised("KeyError")
    ELSE LET rest == ReplayHistory(history, i + 1)
         IN  IF rest.exc # NoExc THEN rest
             ELSE Returned(<<[role |-> "user", content |-> history[i].query],
                             [role |-> "assistant",
                              content |-> history[i].response]>> \o rest.value)

\* _build_messages putting the new query before the history
build_messages_query_first(query, session) ==
    LET history == IF "history" \in DOMAIN session THEN session.history ELSE <<>>
        replayed == ReplayHistory(history, 1)
    IN  IF replayed.exc # NoExc THEN replayed
        ELSE Returned(<<[role |-> "user", content |-> query]>> \o replayed.value)

\* CopilotAgent._build_messages
build_messages(query, session) ==
    LET history == IF "history" \in DOMAIN session THEN session.history ELSE <<>>
        replayed == ReplayHistory(history, 1)
    IN  IF replayed.exc # NoExc THEN replayed
        ELSE Returned(replayed.value \o <<[role |-> "user", content |-> query]>>)

\* CopilotAgent._build_system_prompt, for current_app = session.get("current_application")
build_system_prompt(tools, session) ==
    LET current_app == IF "current_application" \in DOMAIN session
                       THEN session.current_application ELSE None
    IN  [focus |-> IF current_app = None THEN "None selected" ELSE current_app,
         tools |-> [i \in 1..Len(tools) |-> tools[i].name]]

(***************************************************************************)
(* State.                                                                  *)
(***************************************************************************)
VARIABLES
    initState,        \* MCPClientManager.initialize: "created" (not called),
                      \* "initializing", "ready" (returned), "failed" (raised)
    init_index,       \* position of its loop over self.servers
    mcpHasGetTools,   \* has the agent's mcp_client object a get_tools method:
                      \* FALSE for MCPClientManager as it is
    servers,          \* MCPClientManager.servers
    registry,         \* MCPClientManager.registry
    sessions,         \* SessionManager.sessions
    used_ids,         \* the session ids uuid4 has handed out
    now,              \* the clock
    lastCall,         \* the last direct call_tool and what came back
    pc,               \* where the process_query in progress stands
    query,            \* process_query's arguments
    session_id,
    system_prompt,    \* its locals
    messages,
    iteration,
    current_response,
    tool_results,
    tool_index,       \* position of the for loop over tool_use_blocks
    result,           \* what process_query returned or raised
    model_calls,      \* observers: chat_with_tools calls made by the query
    dispatches,       \*            call_tool calls made by the query
    batch_log,        \*            the requests dispatched in the current
                      \*            batch: [id, server called]
    hist_before,      \*            the session's history when the query began
    plain_so_far,     \*            every response so far was the plain request
    lastDescribe,     \* the last get_available_tools or get_tool call
    lastRegister,     \* the last direct ToolRegistry.register call
    tasks             \* the calls in progress on provider objects used directly

\* the variables of the application
appVars == <<initState, mcpHasGetTools, servers, registry, sessions, used_ids, now,
          lastCall, pc, query, session_id, system_prompt, messages, iteration,
          current_response, tool_results, tool_index, result, model_calls,
          dispatches, batch_log, hist_before, plain_so_far>>

\* the variables the application never changes once it runs
\* the last call made on the SessionManager by whoever holds it
VARIABLE lastStore

\* objects the application's manager and routes never reach into
VARIABLES
    context_server,   \* a ContextMCPServer whose handlers are called directly
    chat_call,        \* a BaseAgent._chat_with_retry call
    pool,             \* a ProcessingPool.map_unordered call
    orchestrator      \* a run of process_scholarships.main

standaloneVars == <<context_server, chat_call, pool, orchestrator>>

unitVars == <<provider_set, standaloneVars, lastRegister, tasks, lastStore>>

\* the sessions whose last process_query ended in a fatal error of the
\* conversation loop: a model call that failed or the iteration bound
VARIABLE fatal_sessions

\* what the steps of a query, of a session and of the clock leave alone
restVars == <<init_index, lastDescribe, unitVars, fatal_sessions>>

vars == <<appVars, restVars>>

queryVars == <<query, session_id, system_prompt, messages, iteration,
               current_response, tool_results, tool_index, result, model_calls,
               dispatches, batch_log, hist_before, plain_so_far>>

NoResult == [status |-> "none", exc |-> NoExc, stage |-> "none", text |-> <<>>]
NoCall == [made |-> FALSE, tool_name |-> None, arguments |-> None,
           exc |-> NoExc, value |-> [none |-> TRUE], server |-> None]

IdleQuery ==
    /\ query = <<>>
    /\ session_id = None
    /\ system_prompt = [focus |-> "None selected", tools |-> <<>>]
    /\ messages = <<>>
    /\ iteration = 0
    /\ current_response = <<>>
    /\ tool_results = <<>>
    /\ tool_index = 0
    /\ result = NoResult
    /\ model_calls = 0
    /\ dispatches = 0
    /\ batch_log = <<>>
    /\ hist_before = <<>>
    /\ plain_so_far = TRUE

NoDescribe == [made |-> FALSE, op |-> None, tool_name |-> None, value |-> None]
NoRegister == [made |-> FALSE, server_name |-> None, tool_name |-> None,
               exc |-> NoExc, before |-> EmptyRegistry]
NoStore == [op |-> None, session_id |-> None, found |-> FALSE, exc |-> NoExc,
            value |-> None]
IdleTask == [op |-> None, name |-> None, tool_name |-> None, stage |-> "idle",
             exc |-> NoExc]
Tasks == 1..2

\* none of the standalone objects is in use
NoStandalone ==
    /\ context_server = None
    /\ chat_call = None
    /\ pool = None
    /\ orchestrator = None

\* nothing is called on the registry or on a provider but by the manager
NoUnitCalls ==
    /\ NoStandalone
    /\ fatal_sessions = {}
    /\ lastStore = NoStore
    /\ lastRegister = NoRegister
    /\ tasks = [t \in Tasks |-> IdleTask]

\* no session, no query, no call
NoSessions ==
    /\ sessions = <<>>
    /\ used_ids = {}
    /\ now = 0
    /\ lastCall = NoCall
    /\ pc = "idle"
    /\ IdleQuery

Init ==
    /\ provider_set \in ProviderSets
    /\ init_index = 0
    /\ lastDescribe = NoDescribe
    /\ NoUnitCalls
    /\ initState = "created"
    /\ mcpHasGetTools \in BOOLEAN
    /\ servers = <<>>
    /\ registry = EmptyRegistry
    /\ NoSessions

\* a ToolRegistry of its own, as constructed
RegistryInit ==
    /\ provider_set = "fixed"
    /\ init_index = 0
    /\ lastDescribe = NoDescribe
    /\ NoUnitCalls
    /\ initState = "created"
    /\ mcpHasGetTools = FALSE
    /\ servers = <<>>
    /\ registry = EmptyRegistry
    /\ NoSessions

Error(stage, exc) ==
    [status |-> "error", exc |-> exc, stage |-> stage, text |-> <<>>]
Success(text) ==
    [status |-> "ok", exc |-> NoExc, stage |-> "done", text |-> text]

(***************************************************************************)
(* Startup, the clock, sessions, direct dispatch.                          *)
(***************************************************************************)
\* main.initialize_services: await mcp_client.initialize(), up to its loop:
\* the four providers are constructed and stored
Initialize ==
    /\ initState = "created"
    /\ pc = "idle"
    /\ servers' = [n \in ServerNames |-> NewServer(n)]
    /\ init_index' = 1
    /\ initState' = "initializing"
    /\ UNCHANGED <<mcpHasGetTools, registry, sessions, used_ids, now, lastCall,
                   pc>>
    /\ UNCHANGED queryVars
    /\ UNCHANGED <<lastDescribe, unitVars, fatal_sessions>>

\* one pass of the loop of initialize(); initialize() returns after the
\* last pass, and raises RuntimeError from the pass in which anything raised
InitializeNext ==
    /\ initState = "initializing"
    /\ LET r == InitializeServer(servers, registry, ServerOrder[init_index])
       IN  /\ servers' = r.servers
           /\ registry' = r.registry
           /\ IF r.exc # NoExc
              THEN /\ initState' = "failed"
                   /\ UNCHANGED init_index
              ELSE /\ init_index' = init_index + 1
                   /\ initState' = IF init_index = Len(ServerOrder)
                                   THEN "ready" ELSE "initializing"
    /\ UNCHANGED <<mcpHasGetTools, sessions, used_ids, now, lastCall, pc>>
    /\ UNCHANGED queryVars
    /\ UNCHANGED <<lastDescribe, unitVars, fatal_sessions>>

\* time passes while the service is idle or waits for the model service
Tick ==
    /\ now < MaxTime
    /\ pc \in {"idle", "awaiting_model"}
    /\ now' = now + 1
    /\ UNCHANGED <<initState, mcpHasGetTools, servers, registry, sessions,
                   used_ids, lastCall, pc>>
    /\ UNCHANGED queryVars
    /\ UNCHANGED restVars

\* SessionManager.create_session
CreateSession(user_id) ==
    /\ initState = "ready"
    /\ pc = "idle"
    /\ \E id \in SessionIds \ used_ids :
          /\ sessions' = [s \in DOMAIN sessions \cup {id} |->
                            IF s = id THEN NewSession(id, user_id, now)
                            ELSE sessions[s]]
          /\ used_ids' = used_ids \cup {id}
    /\ UNCHANGED <<initState, mcpHasGetTools, servers, registry, now, lastCall,
                   pc>>
    /\ UNCHANGED queryVars
    /\ UNCHANGED restVars

ContextKeys == {"current_application"}
ContextValues == {"app1"}

\* routes.update_session_context: await manager.update_context(...)
UpdateContext(sid, key, value) ==
    /\ initState = "ready"
    /\ pc = "idle"
    /\ sessions' = update_context(sessions, sid, key, value, now).sessions
    /\ UNCHANGED <<initState, mcpHasGetTools, servers, registry, used_ids, now,
                   lastCall, pc>>
    /\ UNCHANGED queryVars
    /\ UNCHANGED restVars

\* a caller awaits manager.call_tool(tool_name, arguments)
Dispatch(tool_name, arguments) ==
    /\ pc = "idle"
    /\ initState \in {"created", "ready"}
    /\ LET r == call_tool(registry, servers, tool_name, arguments)
       IN  /\ lastCall' = [made |-> TRUE, tool_name |-> tool_name,
                           arguments |-> arguments, exc |-> r.exc,
                           value |-> IF r.exc = NoExc THEN r.value
                                     ELSE [none |-> TRUE],
                           server |-> r.server]
           /\ servers' = r.srv
    /\ pc' = "dispatched"
    /\ UNCHANGED <<initState, mcpHasGetTools, registry, sessions, used_ids, now>>
    /\ UNCHANGED queryVars
    /\ UNCHANGED restVars

\* ... and goes on with what came back
DispatchReturn ==
    /\ pc = "dispatched"
    /\ pc' = "idle"
    /\ lastCall' = NoCall
    /\ UNCHANGED <<initState, mcpHasGetTools, servers, registry, sessions,
                   used_ids, now>>
    /\ UNCHANGED queryVars
    /\ UNCHANGED restVars

\* the application is asked for its tools: manager.get_available_tools()
Describe ==
    /\ initState = "ready"
    /\ pc = "idle"
    /\ lastDescribe' = [made |-> TRUE, op |-> "get_available_tools",
                        tool_name |-> None,
                        value |-> get_available_tools(registry)]
    /\ pc' = "described"
    /\ UNCHANGED <<initState, mcpHasGetTools, servers, registry, sessions,
                   used_ids, now, lastCall>>
    /\ UNCHANGED queryVars
    /\ UNCHANGED <<init_index, unitVars, fatal_sessions>>

\* get_tool clearing the registry when it does not find the name
GetTool_clearing(tool_name) ==
    /\ initState = "ready"
    /\ pc = "idle"
    /\ lastDescribe' = [made |-> TRUE, op |-> "get_tool",
                        tool_name |-> tool_name,
                        value |-> get_tool(registry, tool_name)]
    /\ registry' = IF tool_name \notin DOMAIN registry.tools THEN EmptyRegistry
                   ELSE registry
    /\ pc' = "described"
    /\ UNCHANGED <<initState, mcpHasGetTools, servers, sessions, used_ids, now,
                   lastCall>>
    /\ UNCHANGED queryVars
    /\ UNCHANGED <<init_index, unitVars, fatal_sessions>>

\* manager.get_tool(tool_name)
GetTool(tool_name) ==
    /\ initState = "ready"
    /\ pc = "idle"
    /\ lastDescribe' = [made |-> TRUE, op |-> "get_tool",
                        tool_name |-> tool_name,
                        value |-> get_tool(registry, tool_name)]
    /\ pc' = "described"
    /\ UNCHANGED <<initState, mcpHasGetTools, servers, registry, sessions,
                   used_ids, now, lastCall>>
    /\ UNCHANGED queryVars
    /\ UNCHANGED <<init_index, unitVars, fatal_sessions>>

\* ... and the caller goes on with what came back
DescribeReturn ==
    /\ pc = "described"
    /\ pc' = "idle"
    /\ lastDescribe' = NoDescribe
    /\ UNCHANGED <<initState, mcpHasGetTools, servers, registry, sessions,
                   used_ids, now, lastCall>>
    /\ UNCHANGED queryVars
    /\ UNCHANGED <<init_index, unitVars, fatal_sessions>>

(***************************************************************************)
(* CopilotAgent.process_query with ClaudeClient.process_tool_calls.        *)
(***************************************************************************)
HistoryOf(ss, sid) == IF sid \in DOMAIN ss THEN ss[sid].history ELSE <<>>

\* process_query up to its first chat_with_tools call
StartQuery(q, sid) ==
    /\ initState = "ready"
    /\ pc = "idle"
    /\ query' = q
    /\ session_id' = sid
    /\ hist_before' = HistoryOf(sessions, sid)
    /\ LET l == load_session(sessions, sid, now)
           tools == get_tools(registry)
           m == build_messages(q, l.value)
       IN  /\ sessions' = l.sessions
           /\ IF l.exc # NoExc
              THEN /\ pc' = "done"
                   /\ result' = Error("session", l.exc)
                   /\ UNCHANGED <<system_prompt, messages, model_calls>>
              ELSE IF ~mcpHasGetTools
              THEN /\ pc' = "done"
                   /\ result' = Error("get_tools", "AttributeError")
                   /\ UNCHANGED <<system_prompt, messages, model_calls>>
              ELSE IF m.exc # NoExc
              THEN /\ pc' = "done"
                   /\ result' = Error("build_messages", m.exc)
                   /\ system_prompt' = build_system_prompt(tools, l.value)
                   /\ UNCHANGED <<messages, model_calls>>
              ELSE /\ pc' = "awaiting_model"
                   /\ result' = NoResult
                   /\ system_prompt' = build_system_prompt(tools, l.value)
                   /\ messages' = m.value
                   /\ model_calls' = 1
    /\ UNCHANGED <<initState, mcpHasGetTools, servers, registry, used_ids, now,
                   lastCall>>
    /\ UNCHANGED <<iteration, current_response, tool_results, tool_index,
                   dispatches, batch_log, plain_so_far>>
    /\ UNCHANGED restVars

\* the responses the model service may give to the call in progress
AllowedResponse(content) ==
    \/ tool_use_blocks(content) = <<>>
    \/ plain_so_far /\ content = PlainResponse(model_calls)
    \/ /\ iteration = 0 \/ ~plain_so_far
       /\ Len(tool_use_blocks(content)) <= MaxRequests - dispatches

\* chat_with_tools returns content; process_tool_calls runs from the test of
\* its while loop to the for loop over the tool_use blocks, or to its end
ModelRespond(content) ==
    /\ pc = "awaiting_model"
    /\ AllowedResponse(content)
    /\ current_response' = content
    /\ plain_so_far' = (plain_so_far /\ (tool_use_blocks(content) = <<>>
                                          \/ content = PlainResponse(model_calls)))
    /\ IF while_test(iteration)
       THEN /\ iteration' = iteration + 1
            /\ IF tool_use_blocks(content) = <<>>
               THEN LET final_text == extract_text_from_response(content)
                        a == add_interaction(sessions, session_id, query,
                                             final_text, now)
                    IN  /\ sessions' = a.sessions
                        /\ result' = IF a.exc # NoExc
                                     THEN Error("add_interaction", a.exc)
                                     ELSE Success(final_text)
                        /\ pc' = "done"
                        /\ UNCHANGED <<messages, tool_results, tool_index,
                                       batch_log>>
               ELSE /\ messages' = Append(messages,
                                          [role |-> "assistant",
                                           content |-> content])
                    /\ tool_results' = <<>>
                    /\ tool_index' = 1
                    /\ batch_log' = <<>>
                    /\ pc' = "tools"
                    /\ UNCHANGED <<sessions, result>>
       ELSE /\ result' = Error("iteration_bound", "RuntimeError")
            /\ pc' = "done"
            /\ UNCHANGED <<sessions, iteration, messages, tool_results,
                           tool_index, batch_log>>
    /\ UNCHANGED <<initState, mcpHasGetTools, servers, registry, used_ids, now,
                   lastCall>>
    /\ UNCHANGED <<query, session_id, system_prompt, model_calls, dispatches,
                   hist_before>>
    /\ UNCHANGED restVars

\* chat_with_tools raising and the first call being made a second time
ModelFail_retry_once(e) ==
    /\ pc = "awaiting_model"
    /\ IF model_calls = 1
       THEN /\ model_calls' = 2
            /\ UNCHANGED <<pc, result>>
       ELSE /\ result' = Error("model", "RuntimeError")
            /\ pc' = "done"
            /\ UNCHANGED model_calls
    /\ UNCHANGED <<initState, mcpHasGetTools, servers, registry, sessions,
                   used_ids, now, lastCall>>
    /\ UNCHANGED <<query, session_id, system_prompt, messages, iteration,
                   current_response, tool_results, tool_index,
                   dispatches, batch_log, hist_before, plain_so_far>>
    /\ UNCHANGED restVars

\* chat_with_tools raises: process_query lets the first call's exception
\* through, process_tool_calls raises RuntimeError for a later one
ModelFail(e) ==
    /\ pc = "awaiting_model"
    /\ result' = Error("model", IF model_calls = 1 THEN e ELSE "RuntimeError")
    /\ pc' = "done"
    /\ UNCHANGED <<initState, mcpHasGetTools, servers, registry, sessions,
                   used_ids, now, lastCall>>
    /\ UNCHANGED <<query, session_id, system_prompt, messages, iteration,
                   current_response, tool_results, tool_index, model_calls,
                   dispatches, batch_log, hist_before, plain_so_far>>
    /\ UNCHANGED restVars

\* the for loop leaving the batch at the first request whose result is an
\* error object
ExecuteTool_short_circuit ==
    /\ pc = "tools"
    /\ tool_index <= Len(tool_use_blocks(current_response))
    /\ LET tool_block == tool_use_blocks(current_response)[tool_index]
           r == call_tool(registry, servers, tool_block.name, tool_block.input)
       IN  /\ servers' = r.srv
           /\ tool_results' =
                Append(tool_results,
                       IF r.exc = NoExc
                       THEN [type |-> "tool_result",
                             tool_use_id |-> tool_block.id,
                             content |-> r.value]
                       ELSE [type |-> "tool_result",
                             tool_use_id |-> tool_block.id,
                             content |-> [text |-> <<"Error executing tool: ",
                                                     r.exc>>],
                             is_error |-> TRUE])
           /\ batch_log' = Append(batch_log, [id |-> tool_block.id,
                                               server |-> r.server])
           /\ tool_index' = IF r.exc = NoExc /\ "error" \in DOMAIN r.value
                            THEN Len(tool_use_blocks(current_response)) + 1
                            ELSE tool_index + 1
    /\ dispatches' = dispatches + 1
    /\ UNCHANGED <<initState, mcpHasGetTools, registry, sessions, used_ids, now,
                   lastCall, pc>>
    /\ UNCHANGED <<query, session_id, system_prompt, messages, iteration,
                   current_response, result, model_calls, hist_before,
                   plain_so_far>>
    /\ UNCHANGED restVars

\* one pass of: for tool_block in tool_use_blocks
ExecuteTool ==
    /\ pc = "tools"
    /\ tool_index <= Len(tool_use_blocks(current_response))
    /\ LET tool_block == tool_use_blocks(current_response)[tool_index]
           r == call_tool(registry, servers, tool_block.name, tool_block.input)
       IN  /\ servers' = r.srv
           /\ tool_results' =
                Append(tool_results,
                       IF r.exc = NoExc
                       THEN [type |-> "tool_result",
                             tool_use_id |-> tool_block.id,
                             content |-> r.value]
                       ELSE [type |-> "tool_result",
                             tool_use_id |-> tool_block.id,
                             content |-> [text |-> <<"Error executing tool: ",
                                                     r.exc>>],
                             is_error |-> TRUE])
           /\ batch_log' = Append(batch_log, [id |-> tool_block.id,
                                               server |-> r.server])
    /\ tool_index' = tool_index + 1
    /\ dispatches' = dispatches + 1
    /\ UNCHANGED <<initState, mcpHasGetTools, registry, sessions, used_ids, now,
                   lastCall, pc>>
    /\ UNCHANGED <<query, session_id, system_prompt, messages, iteration,
                   current_response, result, model_calls, hist_before,
                   plain_so_far>>
    /\ UNCHANGED restVars

\* the tool results appended as one user turn per result
SendToolResults_turn_per_result ==
    /\ pc = "tools"
    /\ tool_index > Len(tool_use_blocks(current_response))
    /\ messages' = messages \o [i \in 1..Len(tool_results) |->
                                 [role |-> "user",
                                  content |-> <<tool_results[i]>>]]
    /\ IF mcpHasGetTools
       THEN /\ pc' = "awaiting_model"
            /\ model_calls' = model_calls + 1
            /\ UNCHANGED result
       ELSE /\ pc' = "done"
            /\ result' = Error("model", "RuntimeError")
            /\ UNCHANGED model_calls
    /\ UNCHANGED <<initState, mcpHasGetTools, servers, registry, sessions,
                   used_ids, now, lastCall>>
    /\ UNCHANGED <<query, session_id, system_prompt, iteration,
                   current_response, tool_results, tool_index, dispatches,
                   batch_log, hist_before, plain_so_far>>
    /\ UNCHANGED restVars

\* after the for loop: the tool results are appended and chat_with_tools is
\* called again (its tools argument is await mcp_client.get_tools())
SendToolResults ==
    /\ pc = "tools"
    /\ tool_index > Len(tool_use_blocks(current_response))
    /\ messages' = Append(messages, [role |-> "user", content |-> tool_results])
    /\ IF mcpHasGetTools
       THEN /\ pc' = "awaiting_model"
            /\ model_calls' = model_calls + 1
            /\ UNCHANGED result
       ELSE /\ pc' = "done"
            /\ result' = Error("model", "RuntimeError")
            /\ UNCHANGED model_calls
    /\ UNCHANGED <<initState, mcpHasGetTools, servers, registry, sessions,
                   used_ids, now, lastCall>>
    /\ UNCHANGED <<query, session_id, system_prompt, iteration,
                   current_response, tool_results, tool_index, dispatches,
                   batch_log, hist_before, plain_so_far>>
    /\ UNCHANGED restVars

\* process_query has returned or raised; the agent is free for the next query
\* the stages at which the conversation loop ends with a fatal error
FatalStages == {"model", "iteration_bound"}

\* process_query closing the session of a query that ended fatally
Return_closing_session ==
    /\ pc = "done"
    /\ pc' = "idle"
    /\ query' = <<>>
    /\ session_id' = None
    /\ system_prompt' = [focus |-> "None selected", tools |-> <<>>]
    /\ messages' = <<>>
    /\ iteration' = 0
    /\ current_response' = <<>>
    /\ tool_results' = <<>>
    /\ tool_index' = 0
    /\ result' = NoResult
    /\ model_calls' = 0
    /\ dispatches' = 0
    /\ batch_log' = <<>>
    /\ hist_before' = <<>>
    /\ plain_so_far' = TRUE
    /\ fatal_sessions' = IF result.stage \in FatalStages
                         THEN fatal_sessions \cup {session_id}
                         ELSE fatal_sessions \ {session_id}
    /\ sessions' = IF result.stage \in FatalStages
                   THEN delete_session(sessions, session_id) ELSE sessions
    /\ UNCHANGED <<initState, mcpHasGetTools, servers, registry, used_ids, now,
                   lastCall>>
    /\ UNCHANGED <<init_index, lastDescribe, unitVars>>

\* process_query returns or raises
Return ==
    /\ pc = "done"
    /\ pc' = "idle"
    /\ query' = <<>>
    /\ session_id' = None
    /\ system_prompt' = [focus |-> "None selected", tools |-> <<>>]
    /\ messages' = <<>>
    /\ iteration' = 0
    /\ current_response' = <<>>
    /\ tool_results' = <<>>
    /\ tool_index' = 0
    /\ result' = NoResult
    /\ model_calls' = 0
    /\ dispatches' = 0
    /\ batch_log' = <<>>
    /\ hist_before' = <<>>
    /\ plain_so_far' = TRUE
    /\ fatal_sessions' = IF result.stage \in FatalStages
                         THEN fatal_sessions \cup {session_id}
                         ELSE fatal_sessions \ {session_id}
    /\ UNCHANGED <<initState, mcpHasGetTools, servers, registry, sessions,
                   used_ids, now, lastCall>>
    /\ UNCHANGED <<init_index, lastDescribe, unitVars>>

DispatchNames == {"get_application", "get_context", "delete_everything"}

Next ==
    \/ Initialize
    \/ InitializeNext
    \/ Tick
    \/ \E u \in UserIds : CreateSession(u)
    \/ \E n \in DispatchNames, a \in ArgValues : Dispatch(n, a)
    \/ DispatchReturn
    \/ Describe
    \/ \E n \in DispatchNames : GetTool(n)
    \/ DescribeReturn
    \/ \E q \in Queries, sid \in SessionIds : StartQuery(q, sid)
    \/ \E c \in TextResponses \cup RichResponses(model_calls) : ModelRespond(c)
    \/ \E e \in TransportErrors : ModelFail(e)
    \/ ExecuteTool
    \/ SendToolResults
    \/ Return

Spec == Init /\ [][Next]_vars

\* a step of the query in progress: the model service answers or its client
\* raises, a tool call returns, the results of a batch are sent
QueryProgress ==
    \/ \E c \in TextResponses \cup RichResponses(model_calls) : ModelRespond(c)
    \/ \E e \in TransportErrors : ModelFail(e)
    \/ ExecuteTool
    \/ SendToolResults

\* the application without the read-only descriptions of the registry
LiveNext ==
    \/ Initialize
    \/ InitializeNext
    \/ Tick
    \/ \E u \in UserIds : CreateSession(u)
    \/ \E n \in DispatchNames, a \in ArgValues : Dispatch(n, a)
    \/ DispatchReturn
    \/ \E q \in Queries, sid \in SessionIds : StartQuery(q, sid)
    \/ QueryProgress
    \/ Return

\* ... where the model service and the tools always come back
LiveSpec ==
    Init /\ [][LiveNext]_vars /\ WF_<<pc, tool_index>>(QueryProgress)

\* the application with the route that sets a key of a session's context
FocusNext ==
    \/ Next
    \/ \E sid \in SessionIds, k \in ContextKeys, v \in ContextValues :
          UpdateContext(sid, k, v)

FocusSpec == Init /\ [][FocusNext]_vars

(***************************************************************************)
(* A ToolRegistry used on its own: register is called with any server      *)
(* name, tool name and schema.                                             *)
(***************************************************************************)
\* list.remove(x): the list without the first x
RemoveFirst(list, x) ==
    LET i == CHOOSE k \in 1..Len(list) :
                 list[k] = x /\ \A j \in 1..(k - 1) : list[j] # x
    IN  SubSeq(list, 1, i - 1) \o SubSeq(list, i + 1, Len(list))

\* a dictionary without key k; the empty dictionary is <<>>
Without(dict, k) ==
    IF DOMAIN dict \ {k} = {} THEN <<>>
    ELSE [n \in DOMAIN dict \ {k} |-> dict[n]]

\* unregister leaving the emptied list of a server in _server_tools
registry_unregister_keeping_empty(reg, tool_name) ==
    IF tool_name \notin DOMAIN reg.tools
    THEN [exc |-> "ValueError", value |-> reg]
    ELSE LET server_name == reg.tools[tool_name].server_name
         IN  [exc |-> NoExc,
              value |->
                [tools |-> Without(reg.tools, tool_name),
                 order |-> RemoveFirst(reg.order, tool_name),
                 server_tools |->
                   IF server_name \notin DOMAIN reg.server_tools
                   THEN reg.server_tools
                   ELSE [reg.server_tools EXCEPT
                           ![server_name] = RemoveFirst(@, tool_name)]]]

\* ToolRegistry.unregister: value is the registry afterwards
registry_unregister(reg, tool_name) ==
    IF tool_name \notin DOMAIN reg.tools
    THEN [exc |-> "ValueError", value |-> reg]
    ELSE LET server_name == reg.tools[tool_name].server_name
         IN  [exc |-> NoExc,
              value |->
                [tools |-> Without(reg.tools, tool_name),
                 order |-> RemoveFirst(reg.order, tool_name),
                 server_tools |->
                   IF server_name \notin DOMAIN reg.server_tools
                   THEN reg.server_tools
                   ELSE IF RemoveFirst(reg.server_tools[server_name],
                                       tool_name) = <<>>
                   THEN Without(reg.server_tools, server_name)
                   ELSE [reg.server_tools EXCEPT
                           ![server_name] = RemoveFirst(@, tool_name)]]]

\* ToolRegistry.clear
registry_clear(reg) == [exc |-> NoExc, value |-> EmptyRegistry]

\* ToolRegistry.get_stats
get_stats(reg) ==
    [total_tools |-> Cardinality(DOMAIN reg.tools),
     total_servers |-> Cardinality(DOMAIN reg.server_tools),
     tools_per_server |->
        [server \in DOMAIN reg.server_tools |-> Len(reg.server_tools[server])]]

RegisterServers == {"application_data", "analysis"}
RegisterNames == {"get_application", "analyze_application", "get_context", ""}

\* the schemas handed to register: a tool's to_dict(), or one without its
\* returnSchema
RegisterSchemas(tool_name) ==
    {to_dict(ToolSchema(tool_name)),
     [name |-> tool_name, description |-> <<"description", tool_name>>,
      inputSchema |-> <<"input", tool_name>>]}

\* registry.register(server_name, tool_name, tool_schema)
RegisterCall(server_name, tool_name, tool_schema) ==
    /\ LET r == registry_register(registry, server_name, tool_name, tool_schema)
       IN  /\ registry' = r.value
           /\ lastRegister' = [made |-> TRUE, server_name |-> server_name,
                               tool_name |-> tool_name, exc |-> r.exc,
                               before |-> registry]
    /\ UNCHANGED <<initState, mcpHasGetTools, servers, sessions, used_ids, now,
                   lastCall, pc>>
    /\ UNCHANGED queryVars
    /\ UNCHANGED <<init_index, lastDescribe, provider_set, standaloneVars, tasks, fatal_sessions,
                   lastStore>>

RegistryNext ==
    \E server_name \in RegisterServers, tool_name \in RegisterNames :
        \E tool_schema \in RegisterSchemas(tool_name) :
            RegisterCall(server_name, tool_name, tool_schema)

RegistrySpec == RegistryInit /\ [][RegistryNext]_vars

\* a call on the registry has returned or raised: r is [exc, value]
RegistryCalled(server_name, tool_name, r) ==
    /\ registry' = r.value
    /\ lastRegister' = [made |-> TRUE, server_name |-> server_name,
                        tool_name |-> tool_name, exc |-> r.exc,
                        before |-> registry]
    /\ UNCHANGED <<initState, mcpHasGetTools, servers, sessions, used_ids, now,
                   lastCall, pc>>
    /\ UNCHANGED queryVars
    /\ UNCHANGED <<init_index, lastDescribe, provider_set, standaloneVars, tasks, fatal_sessions,
                   lastStore>>

\* registry.unregister(tool_name)
UnregisterCall(tool_name) ==
    RegistryCalled(None, tool_name, registry_unregister(registry, tool_name))

\* registry.clear()
ClearCall == RegistryCalled(None, None, registry_clear(registry))

\* a ToolRegistry on which register, unregister and clear are called
RegistryEditNext ==
    \/ RegistryNext
    \/ \E tool_name \in RegisterNames : UnregisterCall(tool_name)
    \/ ClearCall

RegistryEditSpec == RegistryInit /\ [][RegistryEditNext]_vars

(***************************************************************************)
(* Provider objects used on their own: constructed as initialize() of the  *)
(* manager constructs them (the analysis provider holds the record-access  *)
(* provider), their initialize, get_tools and handle_tool_call are called  *)
(* by two tasks.  A call runs without interruption up to the await of the  *)
(* tool's handler, where the other task may run.                           *)
(***************************************************************************)
UnitProviders == {"application_data", "analysis"}
UnitTools == {"get_application", "analyze_application"}
UnitArgs == {"ok", "raises"}

ProviderInit ==
    /\ provider_set = "fixed"
    /\ init_index = 0
    /\ lastDescribe = NoDescribe
    /\ NoUnitCalls
    /\ initState = "created"
    /\ mcpHasGetTools = FALSE
    /\ servers = [n \in ServerNames |-> NewServer(n)]
    /\ registry = EmptyRegistry
    /\ NoSessions

\* a call may start
MayCall(t) ==
    /\ tasks[t].stage = "idle"
    /\ \A n \in ServerNames : servers[n].setups < MaxSetups

\* task t has made the call op on the provider called name; r is what the
\* call did up to its return or to the handler
Called(t, op, name, tool_name, r, stage) ==
    /\ servers' = r.value
    /\ tasks' = [tasks EXCEPT ![t] = [op |-> op, name |-> name,
                                      tool_name |-> tool_name,
                                      stage |-> stage, exc |-> r.exc]]
    /\ UNCHANGED <<initState, mcpHasGetTools, registry, sessions, used_ids,
                   now, lastCall, pc>>
    /\ UNCHANGED queryVars
    /\ UNCHANGED <<init_index, lastDescribe, provider_set, standaloneVars, lastRegister,
                   fatal_sessions, lastStore>>

\* await provider.initialize()
CallInitialize(t, name) ==
    /\ MayCall(t)
    /\ Called(t, "initialize", name, None, ServerInitialize(servers, name),
              "returned")

\* await provider.get_tools()
CallGetTools(t, name) ==
    /\ MayCall(t)
    /\ Called(t, "get_tools", name, None, ensure_initialized(servers, name),
              "returned")

\* the handler of tool_name is awaited by what handle_tool_call gave
HandlerAwaited(h, name, tool_name) ==
    h.exc = NoExc \/ (h.exc = "RuntimeError"
                        /\ h.srv[name].initialized
                        /\ tool_name \in h.srv[name].handlers)

\* await provider.handle_tool_call(tool_name, arguments), up to its return
\* or to the handler
HandleToolCallStarted(t, name, tool_name, h) ==
    Called(t, "handle_tool_call", name, tool_name,
           [exc |-> h.exc, value |-> h.srv],
           IF HandlerAwaited(h, name, tool_name) THEN "in_handler"
           ELSE "returned")

CallHandleToolCall(t, name, tool_name, arguments) ==
    /\ MayCall(t)
    /\ HandleToolCallStarted(t, name, tool_name,
            handle_tool_call(servers, name, tool_name, arguments))

\* the handler is done and handle_tool_call returns or raises
HandlerReturn(t) ==
    /\ tasks[t].stage = "in_handler"
    /\ tasks' = [tasks EXCEPT ![t].stage = "returned"]
    /\ UNCHANGED appVars
    /\ UNCHANGED <<init_index, lastDescribe, provider_set, standaloneVars, lastRegister,
                   fatal_sessions, lastStore>>

\* the caller has what the call gave
TaskDone(t) ==
    /\ tasks[t].stage = "returned"
    /\ tasks' = [tasks EXCEPT ![t] = IdleTask]
    /\ UNCHANGED appVars
    /\ UNCHANGED <<init_index, lastDescribe, provider_set, standaloneVars, lastRegister,
                   fatal_sessions, lastStore>>

ProviderNext ==
    \E t \in Tasks :
        \/ \E name \in UnitProviders : CallInitialize(t, name)
        \/ \E name \in UnitProviders : CallGetTools(t, name)
        \/ \E name \in UnitProviders, tool_name \in UnitTools,
              arguments \in UnitArgs :
                CallHandleToolCall(t, name, tool_name, arguments)
        \/ HandlerReturn(t)
        \/ TaskDone(t)

ProviderSpec == ProviderInit /\ [][ProviderNext]_vars

(***************************************************************************)
(* register_tool called on a provider by whoever holds it, with any schema *)
(* and an async handler.                                                   *)
(***************************************************************************)
RegisterToolNames == {"get_application", "search_applications", "extra_tool"}

\* the schemas handed to register_tool for a name: the one the providers of
\* src use and another one with the same name
RegisterToolSchemas(tool_name) ==
    {ToolSchema(tool_name),
     [ToolSchema(tool_name) EXCEPT !.description = <<"other", tool_name>>]}

\* provider.register_tool(schema, handler)
RegisterToolCall(name, schema) ==
    /\ LET r == register_tool(servers[name], schema)
       IN  /\ servers' = [servers EXCEPT ![name] = r.value]
           /\ lastRegister' = [made |-> TRUE, server_name |-> name,
                               tool_name |-> schema.name, exc |-> r.exc,
                               before |-> servers[name], schema |-> schema]
    /\ UNCHANGED <<initState, mcpHasGetTools, registry, sessions, used_ids,
                   now, lastCall, pc>>
    /\ UNCHANGED queryVars
    /\ UNCHANGED <<init_index, lastDescribe, provider_set, standaloneVars, tasks, fatal_sessions,
                   lastStore>>

RegisterToolNext ==
    \E name \in UnitProviders, tool_name \in RegisterToolNames :
       \E schema \in RegisterToolSchemas(tool_name) :
          RegisterToolCall(name, schema)

RegisterToolSpec == ProviderInit /\ [][RegisterToolNext]_vars

(***************************************************************************)
(* A SessionManager used on its own: its methods are called in any order   *)
(* by whoever holds it, on two sessions, while time passes.  No method     *)
(* has a point at which its coroutine is suspended, so each call is one    *)
(* step.                                                                   *)
(***************************************************************************)
StoreIds == {"s1", "s2"}
StoreRoles == {"user", "system"}
StoreContent == <<"q1">>
StoreAnswer == <<"Hello">>

\* a history of n exchanges with the keys that _build_messages reads
InteractionHistory(n) ==
    [i \in 1..n |-> [query |-> <<"q", i>>, response |-> <<"a", i>>]]

\* the data handed to save_session
StoreData ==
    {[history |-> <<>>], [history |-> InteractionHistory(MaxInteractions)]}

HistoryLen(sid) == IF sid \in DOMAIN sessions THEN Len(sessions[sid].history)
                   ELSE 0

\* a method of the SessionManager was called for session sid and r is what
\* it did: [exc, sessions] and, where the method returns something, value
StoreCalled(op, sid, r, value) ==
    /\ sessions' = r.sessions
    /\ lastStore' = [op |-> op, session_id |-> sid,
                     found |-> sid \in DOMAIN sessions, exc |-> r.exc,
                     value |-> IF r.exc = NoExc THEN value ELSE None]
    /\ UNCHANGED <<initState, mcpHasGetTools, servers, registry, now, lastCall,
                   pc>>
    /\ UNCHANGED queryVars
    /\ UNCHANGED <<init_index, lastDescribe, provider_set, standaloneVars, lastRegister, tasks,
                   fatal_sessions>>

StoreCreate(user_id) ==
    \E id \in StoreIds \ used_ids :
       /\ used_ids' = used_ids \cup {id}
       /\ StoreCalled("create_session", id,
              [exc |-> NoExc,
               sessions |-> [s \in DOMAIN sessions \cup {id} |->
                               IF s = id THEN NewSession(id, user_id, now)
                               ELSE sessions[s]]],
              id)

StoreLoad(sid) ==
    /\ UNCHANGED used_ids
    /\ LET l == load_session(sessions, sid, now)
       IN  StoreCalled("load_session", sid, l, l.value)

StoreSave(sid, data) ==
    /\ UNCHANGED used_ids
    /\ StoreCalled("save_session", sid, save_session(sessions, sid, data, now),
                   TRUE)

StoreUpdateContext(sid, key, value) ==
    /\ UNCHANGED used_ids
    /\ StoreCalled("update_context", sid,
                   update_context(sessions, sid, key, value, now), TRUE)

StoreAddMessage(sid, role) ==
    /\ HistoryLen(sid) < MaxStoredTurns
    /\ UNCHANGED used_ids
    /\ StoreCalled("add_message", sid,
                   add_message(sessions, sid, role, StoreContent, now), TRUE)

StoreAddInteraction(sid) ==
    /\ HistoryLen(sid) + 1 < MaxStoredTurns
    /\ UNCHANGED used_ids
    /\ StoreCalled("add_interaction", sid,
                   add_interaction(sessions, sid, StoreContent, StoreAnswer, now),
                   TRUE)

StoreDelete(sid) ==
    /\ UNCHANGED used_ids
    /\ StoreCalled("delete_session", sid,
                   [exc |-> NoExc, sessions |-> delete_session(sessions, sid)],
                   sid \in DOMAIN sessions)

StoreCleanup ==
    /\ UNCHANGED used_ids
    /\ LET c == cleanup_expired(sessions, now)
       IN  StoreCalled("cleanup_expired", None, c, c.value)

\* the first lines of process_query on their own:
\* session = await get_session(session_id), then
\* messages = await self._build_messages(query, session)
BuiltMessages(l, q) ==
    IF l.exc # NoExc THEN [exc |-> l.exc, value |-> None, sessions |-> l.sessions]
    ELSE [exc |-> build_messages(q, l.value).exc,
          value |-> build_messages(q, l.value).value,
          sessions |-> l.sessions]

StoreBuildMessages(sid) ==
    /\ UNCHANGED used_ids
    /\ LET b == BuiltMessages(load_session(sessions, sid, now), StoreContent)
       IN  StoreCalled("build_messages", sid, b, b.value)

StoreTick ==
    /\ now < MaxTime
    /\ now' = now + 1
    /\ UNCHANGED <<initState, mcpHasGetTools, servers, registry, sessions,
                   used_ids, lastCall, pc>>
    /\ UNCHANGED queryVars
    /\ UNCHANGED restVars

StoreNext ==
    \/ \E u \in UserIds : StoreCreate(u)
    \/ \E sid \in StoreIds : StoreLoad(sid)
    \/ \E sid \in StoreIds, data \in StoreData : StoreSave(sid, data)
    \/ \E sid \in StoreIds, k \in ContextKeys, v \in ContextValues :
          StoreUpdateContext(sid, k, v)
    \/ \E sid \in StoreIds, role \in StoreRoles : StoreAddMessage(sid, role)
    \/ \E sid \in StoreIds : StoreAddInteraction(sid)
    \/ \E sid \in StoreIds : StoreDelete(sid)
    \/ StoreCleanup
    \/ \E sid \in StoreIds : StoreBuildMessages(sid)
    \/ StoreTick

StoreSpec == RegistryInit /\ [][StoreNext]_vars

\* the limits handed to get_messages
MessageLimits == {-1, 0, 1, 2, HistoryWindow}

\* await manager.get_messages(session_id, limit)
StoreGetMessages(sid, limit) ==
    /\ UNCHANGED used_ids
    /\ LET g == get_messages(sessions, sid, limit, now)
       IN  StoreCalled("get_messages", sid, g,
                       [limit |-> limit, messages |-> g.value])

\* the SessionManager with callers of get_messages
MessagesNext ==
    \/ StoreNext
    \/ \E sid \in StoreIds, limit \in MessageLimits : StoreGetMessages(sid, limit)

MessagesSpec == RegistryInit /\ [][MessagesNext]_vars

(***************************************************************************)
(* The application with a holder of the SessionManager that saves a        *)
(* history of exchanges, each with its query and its response, the form    *)
(* _build_messages reads.                                                  *)
(***************************************************************************)
\* await manager.save_session(session_id, data)
SaveHistory(sid, data) ==
    /\ initState = "ready"
    /\ pc = "idle"
    /\ sessions' = save_session(sessions, sid, data, now).sessions
    /\ UNCHANGED <<initState, mcpHasGetTools, servers, registry, used_ids, now,
                   lastCall, pc>>
    /\ UNCHANGED queryVars
    /\ UNCHANGED restVars

ReplayNext ==
    \/ Next
    \/ \E sid \in SessionIds, data \in StoreData : SaveHistory(sid, data)

ReplaySpec == Init /\ [][ReplayNext]_vars

(***************************************************************************)
(* Several process_query calls in progress on one event loop.  A call runs *)
(* without interruption from one suspension to the next; the only await of *)
(* src that reaches code which may suspend is that of a tool's handler in  *)
(* handle_tool_call.  The model client is synchronous, and the methods of  *)
(* the SessionManager await nothing but each other.  The messages a call   *)
(* builds are its locals and are left out.                                 *)
(***************************************************************************)
TaskQuery == <<"q1", "q2">>
TaskAnswer == <<"a1", "a2">>

\* the tool requests of the model service: a registered tool and an unknown
\* one
QueryReqs == {PlainReq, <<"delete_everything", "ok">>}
QueryOutcomes == {"text", "tool_use"} \cup TransportErrors

IdleQueryTask ==
    [stage |-> "idle", session_id |-> None, query |-> None, answer |-> None,
     iteration |-> 0, blocks |-> 0, tool_index |-> 0, exc |-> NoExc,
     began_with |-> 0]

QueriesInit ==
    /\ provider_set = "fixed"
    /\ init_index = 0
    /\ lastDescribe = NoDescribe
    /\ NoStandalone
    /\ fatal_sessions = {}
    /\ lastStore = NoStore
    /\ lastRegister = NoRegister
    /\ tasks = [t \in Tasks |-> IdleQueryTask]
    /\ initState = "created"
    /\ mcpHasGetTools \in BOOLEAN
    /\ servers = <<>>
    /\ registry = EmptyRegistry
    /\ NoSessions

\* a call at this stage may be suspended, every await of the code taken for
\* a suspension
MaySwitch_at_every_await(stage) == TRUE

\* a call at this stage is suspended or not in progress, so that another
\* call may run
MaySwitch(stage) == stage \in {"idle", "in_handler"}

\* the event loop may run task t
Runnable(t) == \A u \in Tasks \ {t} : MaySwitch(tasks[u].stage)

\* no call is running
AllSuspended == \A u \in Tasks : MaySwitch(tasks[u].stage)

\* the session a call stores its interaction in, were the id kept in the
\* agent object, where the other calls in progress write theirs
interaction_session_shared(own, others) ==
    IF others = {} THEN own ELSE CHOOSE sid \in others : TRUE

\* the session a call stores its interaction in: its own argument, whatever
\* the sessions of the other calls in progress
interaction_session(own, others) == own

\* the sessions of the calls in progress other than that of task t
OtherSessions(t) ==
    {tasks[u].session_id :
        u \in {v \in Tasks \ {t} : tasks[v].stage # "idle"}}

\* task t has taken a step of its process_query call
QueryStep(t, task, ss) ==
    /\ tasks' = [tasks EXCEPT ![t] = task]
    /\ sessions' = ss
    /\ UNCHANGED <<initState, mcpHasGetTools, registry, used_ids, now,
                   lastCall, pc>>
    /\ UNCHANGED queryVars
    /\ UNCHANGED <<init_index, lastDescribe, provider_set, standaloneVars, lastRegister,
                   lastStore, fatal_sessions>>

\* process_query has returned, or raised e; its locals are gone
QueryRaised(task, e) ==
    [IdleQueryTask EXCEPT !.stage = "returned", !.exc = e,
                          !.session_id = task.session_id,
                          !.query = task.query, !.answer = task.answer,
                          !.began_with = task.began_with]

\* process_query up to its first chat_with_tools call
BeginQuery(t, sid) ==
    /\ initState = "ready"
    /\ tasks[t].stage = "idle"
    /\ Runnable(t)
    /\ UNCHANGED servers
    /\ LET l == load_session(sessions, sid, now)
           m == build_messages(TaskQuery[t], l.value)
           begun == [IdleQueryTask EXCEPT
                       !.session_id = sid, !.query = TaskQuery[t],
                       !.began_with = Len(HistoryOf(sessions, sid))]
       IN  QueryStep(t,
                     IF l.exc # NoExc THEN QueryRaised(begun, l.exc)
                     ELSE IF ~mcpHasGetTools
                     THEN QueryRaised(begun, "AttributeError")
                     ELSE IF m.exc # NoExc THEN QueryRaised(begun, m.exc)
                     ELSE [begun EXCEPT !.stage = "model"],
                     l.sessions)

\* chat_with_tools, then the test of the loop of process_tool_calls and its
\* look at the response, which holds a text or n tool_use blocks; the model
\* service asks for tools MaxRounds times in a query at most
ModelCall(t, outcome, n) ==
    /\ tasks[t].stage = "model"
    /\ Runnable(t)
    /\ outcome = "tool_use" => tasks[t].iteration < MaxRounds
    /\ outcome # "tool_use" => n = 1
    /\ UNCHANGED servers
    /\ QueryStep(t,
                 IF outcome \in TransportErrors
                 THEN QueryRaised(tasks[t], IF tasks[t].iteration = 0
                                            THEN outcome ELSE "RuntimeError")
                 ELSE IF ~while_test(tasks[t].iteration)
                 THEN QueryRaised(tasks[t], "RuntimeError")
                 ELSE IF outcome = "text"
                 THEN [tasks[t] EXCEPT !.stage = "answered",
                                       !.iteration = @ + 1,
                                       !.answer = TaskAnswer[t]]
                 ELSE [tasks[t] EXCEPT !.stage = "tools",
                                       !.iteration = @ + 1,
                                       !.blocks = n, !.tool_index = 1],
                 sessions)

\* call_tool awaits the handler of the tool
AwaitsHandler(reg, srv, tool_name, arguments) ==
    LET name == get_server_for_tool(reg, tool_name)
    IN  /\ arguments \in DictArgs
        /\ name # None
        /\ name \in DOMAIN srv
        /\ HandlerAwaited(handle_tool_call(srv, name, tool_name, arguments),
                          name, tool_name)

\* the next block of the batch, or the next chat_with_tools call
AfterTool(task) ==
    IF task.tool_index < task.blocks
    THEN [task EXCEPT !.stage = "tools", !.tool_index = @ + 1]
    ELSE [task EXCEPT !.stage = "model"]

\* await mcp_client.call_tool(tool_name, tool_input), up to its return or to
\* the handler; req is what the block asks for
ToolCall(t, req) ==
    /\ tasks[t].stage = "tools"
    /\ Runnable(t)
    /\ LET task == tasks[t]
       IN  /\ servers' = call_tool(registry, servers, req[1], req[2]).srv
           /\ QueryStep(t,
                        IF AwaitsHandler(registry, servers, req[1], req[2])
                        THEN [tasks[t] EXCEPT !.stage = "in_handler"]
                        ELSE AfterTool(tasks[t]),
                        sessions)

\* the handler is done and call_tool returns
HandlerDone(t) ==
    /\ tasks[t].stage = "in_handler"
    /\ Runnable(t)
    /\ UNCHANGED servers
    /\ QueryStep(t, AfterTool(tasks[t]), sessions)

\* add_interaction: await self.add_message(session_id, "user", query)
SaveUser(t) ==
    /\ tasks[t].stage = "answered"
    /\ Runnable(t)
    /\ UNCHANGED servers
    /\ LET a == add_message(sessions,
                            interaction_session(tasks[t].session_id,
                                                OtherSessions(t)),
                            "user", tasks[t].query, now)
       IN  QueryStep(t,
                     IF a.exc # NoExc THEN QueryRaised(tasks[t], a.exc)
                     ELSE [tasks[t] EXCEPT !.stage = "saved_user"],
                     a.sessions)

\* add_interaction: await self.add_message(session_id, "assistant",
\* response), and process_query returns
SaveAssistant(t) ==
    /\ tasks[t].stage = "saved_user"
    /\ Runnable(t)
    /\ UNCHANGED servers
    /\ LET a == add_message(sessions,
                            interaction_session(tasks[t].session_id,
                                                OtherSessions(t)),
                            "assistant", tasks[t].answer, now)
       IN  QueryStep(t, QueryRaised(tasks[t], a.exc), a.sessions)

\* the caller has what process_query returned or raised
QueryReturned(t) ==
    /\ tasks[t].stage = "returned"
    /\ Runnable(t)
    /\ UNCHANGED servers
    /\ QueryStep(t, IdleQueryTask, sessions)

\* what the steps of the other handlers and of the clock leave alone
QueriesFrame ==
    /\ UNCHANGED <<initState, mcpHasGetTools, servers, registry, lastCall,
                   pc>>
    /\ UNCHANGED queryVars
    /\ UNCHANGED restVars

QueriesCreate(user_id) ==
    /\ initState = "ready"
    /\ AllSuspended
    /\ \E id \in StoreIds \ used_ids :
          /\ sessions' = [s \in DOMAIN sessions \cup {id} |->
                            IF s = id THEN NewSession(id, user_id, now)
                            ELSE sessions[s]]
          /\ used_ids' = used_ids \cup {id}
    /\ UNCHANGED now
    /\ QueriesFrame

\* routes.update_session_context while no call is running
QueriesUpdateContext(sid, key, value) ==
    /\ initState = "ready"
    /\ AllSuspended
    /\ sessions' = update_context(sessions, sid, key, value, now).sessions
    /\ UNCHANGED <<used_ids, now>>
    /\ QueriesFrame

\* time passes while no call is running: the unit of the clock is long
\* against a run of code between two suspensions
QueriesTick ==
    /\ now < MaxTime
    /\ AllSuspended
    /\ now' = now + 1
    /\ UNCHANGED <<sessions, used_ids>>
    /\ QueriesFrame

QueriesNext ==
    \/ Initialize
    \/ InitializeNext
    \/ \E u \in UserIds : QueriesCreate(u)
    \/ \E sid \in StoreIds, k \in ContextKeys, v \in ContextValues :
          QueriesUpdateContext(sid, k, v)
    \/ QueriesTick
    \/ \E t \in Tasks :
          \/ \E sid \in StoreIds : BeginQuery(t, sid)
          \/ \E o \in QueryOutcomes, n \in 1..MaxRequests : ModelCall(t, o, n)
          \/ \E req \in QueryReqs : ToolCall(t, req)
          \/ HandlerDone(t)
          \/ SaveUser(t)
          \/ SaveAssistant(t)
          \/ QueryReturned(t)

QueriesSpec == QueriesInit /\ [][QueriesNext]_vars

(***************************************************************************)
(* The standalone objects: each is constructed and used with nothing of    *)
(* the application running beside it.                                      *)
(***************************************************************************)
StandaloneBase ==
    /\ provider_set = "fixed"
    /\ init_index = 0
    /\ lastDescribe = NoDescribe
    /\ fatal_sessions = {}
    /\ lastStore = NoStore
    /\ lastRegister = NoRegister
    /\ tasks = [t \in Tasks |-> IdleTask]
    /\ initState = "created"
    /\ mcpHasGetTools = FALSE
    /\ servers = <<>>
    /\ registry = EmptyRegistry
    /\ NoSessions

\* what a step of a standalone object leaves alone of the application
StandaloneFrame ==
    /\ UNCHANGED appVars
    /\ UNCHANGED <<init_index, lastDescribe, fatal_sessions, provider_set,
                   lastRegister, tasks, lastStore>>

(***************************************************************************)
(* ContextMCPServer: the handlers of the context provider.                 *)
(***************************************************************************)
ContextSessions == {"s1", "s2"}
ApplicationIds == {"app1", "app2"}

\* the context_data dictionaries handed to update_context
ContextData ==
    {<<>>, [note |-> "n1"]}
    \cup {[current_application_id |-> a] : a \in ApplicationIds}
    \cup {[current_application_id |-> a, note |-> "n1"] : a \in ApplicationIds}

\* dict[k] = v
Put(dict, k, v) == [n \in DOMAIN dict \cup {k} |-> IF n = k THEN v ELSE dict[n]]

\* dict.update(other)
Updated(dict, other) ==
    IF DOMAIN other = {} THEN dict
    ELSE [n \in DOMAIN dict \cup DOMAIN other |->
            IF n \in DOMAIN other THEN other[n] ELSE dict[n]]

\* dict.get(k), None when the key is missing
Get(dict, k) == IF k \in DOMAIN dict THEN dict[k] ELSE None

\* ContextMCPServer.__init__
NewContextServer ==
    [contexts |-> <<>>, current_applications |-> <<>>, metadata |-> <<>>,
     last |-> [op |-> None, session_id |-> None, application_id |-> None]]

ensure_session_exists(cs, sid, t) ==
    IF sid \notin DOMAIN cs.contexts
    THEN [cs EXCEPT !.contexts = Put(@, sid, <<>>),
                    !.metadata = Put(@, sid,
                                     [created_at |-> t, updated_at |-> t])]
    ELSE cs

\* ContextMCPServer._update_context
handler_update_context(cs, sid, context_data, merge, t) ==
    LET c == ensure_session_exists(cs, sid, t)
    IN  [c EXCEPT !.contexts[sid] =
                      IF merge THEN Updated(@, context_data) ELSE context_data,
                  !.metadata[sid].updated_at = t,
                  !.last = [op |-> "update_context", session_id |-> sid,
                            application_id |-> None]]

\* ContextMCPServer._get_current_application
get_current_application(cs, sid, t) ==
    LET c == ensure_session_exists(cs, sid, t)
    IN  [c EXCEPT !.last = [op |-> "get_current_application",
                            session_id |-> sid,
                            application_id |->
                                Get(c.current_applications, sid)]]

\* ContextMCPServer._set_current_application
set_current_application(cs, sid, application_id, t) ==
    LET c == ensure_session_exists(cs, sid, t)
    IN  [c EXCEPT !.current_applications = Put(@, sid, application_id),
                  !.contexts[sid] =
                      Put(@, "current_application_id", application_id),
                  !.metadata[sid].updated_at = t,
                  !.last = [op |-> "set_current_application",
                            session_id |-> sid,
                            application_id |-> application_id]]

ContextInit ==
    /\ StandaloneBase
    /\ context_server = NewContextServer
    /\ chat_call = None
    /\ pool = None
    /\ orchestrator = None

ContextFrame ==
    /\ StandaloneFrame
    /\ UNCHANGED <<chat_call, pool, orchestrator>>

\* await server._update_context(session_id, context_data, merge)
ContextUpdate(sid, context_data, merge) ==
    /\ context_server' = handler_update_context(context_server, sid,
                                                context_data, merge, now)
    /\ ContextFrame

\* await server._get_current_application(session_id)
ContextGetCurrent(sid) ==
    /\ context_server' = get_current_application(context_server, sid, now)
    /\ ContextFrame

\* await server._set_current_application(session_id, application_id)
ContextSetCurrent(sid, application_id) ==
    /\ context_server' = set_current_application(context_server, sid,
                                                 application_id, now)
    /\ ContextFrame

ContextNext ==
    \/ \E sid \in ContextSessions, data \in ContextData, merge \in BOOLEAN :
           ContextUpdate(sid, data, merge)
    \/ \E sid \in ContextSessions : ContextGetCurrent(sid)
    \/ \E sid \in ContextSessions, a \in ApplicationIds :
           ContextSetCurrent(sid, a)

ContextSpec == ContextInit /\ [][ContextNext]_vars

(***************************************************************************)
(* BaseAgent._chat_with_retry: one call at a time (the method is           *)
(* synchronous), each ollama.chat attempt and each time.sleep a step.      *)
(***************************************************************************)
MAX_RETRIES == 3
INITIAL_RETRY_DELAY == 2

\* an optional argument: left out, or given with a value
NotGiven == [given |-> FALSE]
Given(v) == [given |-> TRUE, value |-> v]

\* what one ollama.chat call can come to: a response, one of the exceptions
\* the except clause names, or another exception
RetryableErrors == {"ConnectionError", "TimeoutError", "ResponseError"}
ChatOutcomes == {"ok", "KeyError"} \cup RetryableErrors

ChatMessages ==
    {<<>>,
     <<[role |-> "user", content |-> "q1"]>>,
     <<[role |-> "system", content |-> "s0"], [role |-> "user", content |-> "q1"]>>}
SystemMessages == {NotGiven, Given("sys")}
MaxRetriesArgs == {NotGiven} \cup {Given(n) : n \in 0..MaxRetriesArg}

\* the messages sent: the system message first, unless there is none or the
\* list begins with one
final_messages(msgs, system_message) ==
    IF ~system_message.given THEN msgs
    ELSE IF msgs # <<>> /\ msgs[1].role = "system" THEN msgs
    ELSE <<[role |-> "system", content |-> system_message.value]>> \o msgs

\* response['message']['content'] of the response to the messages sent
ResponseContent(msgs) == <<"content", Len(msgs)>>

\* the wait growing by the base at every attempt
wait_time_linear(attempt) == INITIAL_RETRY_DELAY * (attempt + 1)

\* self.INITIAL_RETRY_DELAY ** (attempt + 1)
wait_time(attempt) == INITIAL_RETRY_DELAY ^ (attempt + 1)

IdleChat ==
    [stage |-> "idle", final_messages |-> <<>>, max_retries |-> 0,
     attempt |-> 0, last_error |-> None, outcomes |-> <<>>, sleeps |-> <<>>,
     exc |-> NoExc, value |-> <<>>]

ChatInit ==
    /\ StandaloneBase
    /\ context_server = None
    /\ chat_call = IdleChat
    /\ pool = None
    /\ orchestrator = None

ChatFrame ==
    /\ StandaloneFrame
    /\ UNCHANGED <<context_server, pool, orchestrator>>

\* agent._chat_with_retry(messages, max_retries, system_message=...) is
\* entered: the lines before the loop
ChatBegin(msgs, max_retries, system_message) ==
    /\ chat_call.stage = "idle"
    /\ chat_call' = [IdleChat EXCEPT
                       !.stage = "loop",
                       !.max_retries = IF max_retries.given
                                       THEN max_retries.value ELSE MAX_RETRIES,
                       !.final_messages = final_messages(msgs, system_message)]
    /\ ChatFrame

\* one pass of the loop as far as it goes without sleeping: ollama.chat
\* returns or raises
ChatAttempt(outcome) ==
    /\ chat_call.stage = "loop"
    /\ chat_call.attempt < chat_call.max_retries
    /\ LET c == [chat_call EXCEPT !.outcomes = Append(@, outcome)]
       IN  chat_call' =
             IF outcome = "ok"
             THEN [c EXCEPT !.stage = "returned",
                            !.value = ResponseContent(c.final_messages)]
             ELSE IF outcome \notin RetryableErrors
             THEN [c EXCEPT !.stage = "raised", !.exc = outcome]
             ELSE IF c.attempt < c.max_retries - 1
             THEN [c EXCEPT !.last_error = outcome,
                            !.stage = "sleeping",
                            !.sleeps = Append(@, wait_time(c.attempt))]
             ELSE [c EXCEPT !.last_error = outcome,
                            !.attempt = @ + 1]
    /\ ChatFrame

\* time.sleep(wait_time) returns and the loop goes to its next pass
ChatWake ==
    /\ chat_call.stage = "sleeping"
    /\ chat_call' = [chat_call EXCEPT !.stage = "loop", !.attempt = @ + 1]
    /\ ChatFrame

\* the loop has ended: raise OllamaConnectionError
ChatExhausted ==
    /\ chat_call.stage = "loop"
    /\ chat_call.attempt >= chat_call.max_retries
    /\ chat_call' = [chat_call EXCEPT !.stage = "raised",
                                      !.exc = "OllamaConnectionError"]
    /\ ChatFrame

\* the caller goes on with what the call returned or raised
ChatReturn ==
    /\ chat_call.stage \in {"returned", "raised"}
    /\ chat_call' = IdleChat
    /\ ChatFrame

ChatNext ==
    \/ \E msgs \in ChatMessages, m \in MaxRetriesArgs, sm \in SystemMessages :
           ChatBegin(msgs, m, sm)
    \/ \E outcome \in ChatOutcomes : ChatAttempt(outcome)
    \/ ChatWake
    \/ ChatExhausted
    \/ ChatReturn

ChatSpec == ChatInit /\ [][ChatNext]_vars

(***************************************************************************)
(* ProcessingPool, used as its callers use it:                             *)
(*     with ProcessingPool(num_workers, use_threading) as pool:            *)
(*         results = pool.map_unordered(func, items)                       *)
(* An item is known by its place in the list and by what the worker does   *)
(* with it: return a result or raise.  In parallel mode the executor       *)
(* starts the submitted calls in the order of submission, at most          *)
(* num_workers at a time, and they end in any order.                       *)
(***************************************************************************)
WorkerOutcomes == {"ok", "raise"}
PoolItems == UNION {[1..n -> WorkerOutcomes] : n \in 0..MaxItems}
NumWorkersArgs == {NotGiven} \cup {Given(n) : n \in 0..MaxWorkers}

\* what func(item) returns for the item at place i
WorkerResult(i) == [success |-> TRUE, item |-> i]
\* the record appended for an item whose worker raised
FailureRecord(i) == [success |-> FALSE, error |-> "error", item |-> i]

\* the try statement of the loop with a failed item passed over
append_outcome_dropping_failures(results, i, outcome) ==
    IF outcome = "ok" THEN Append(results, WorkerResult(i)) ELSE results

\* the try statement of the loop: results.append(result), or the failure
\* record when func(item) or future.result() raised
append_outcome(results, i, outcome) ==
    IF outcome = "ok" THEN Append(results, WorkerResult(i))
    ELSE Append(results, FailureRecord(i))

\* ProcessingPool.__init__
NewPool(num_workers, use_threading) ==
    [num_workers |-> IF num_workers.given THEN num_workers.value ELSE 0,
     use_threading |-> use_threading,
     use_sequential |-> (~num_workers.given) \/ num_workers.value <= 0,
     executor |-> FALSE,
     stage |-> "constructed",
     items |-> <<>>,
     next_item |-> 0,
     futures |-> <<>>,
     yielded |-> {},
     results |-> <<>>]

PoolInit ==
    /\ StandaloneBase
    /\ context_server = None
    /\ chat_call = None
    /\ \E n \in NumWorkersArgs, th \in BOOLEAN : pool = NewPool(n, th)
    /\ orchestrator = None

PoolFrame ==
    /\ StandaloneFrame
    /\ UNCHANGED <<context_server, chat_call, orchestrator>>

\* ProcessingPool.__enter__
PoolEnter ==
    /\ pool.stage = "constructed"
    /\ pool' = [pool EXCEPT !.stage = "entered",
                            !.executor = ~pool.use_sequential]
    /\ PoolFrame

\* pool.map_unordered(func, iterable) is entered; in parallel mode every
\* item is submitted
MapBegin(items) ==
    /\ pool.stage = "entered"
    /\ pool' = [pool EXCEPT !.stage = "mapping",
                            !.items = items,
                            !.next_item = 1,
                            !.futures = IF pool.use_sequential THEN <<>>
                                        ELSE [i \in 1..Len(items) |-> "pending"],
                            !.yielded = {},
                            !.results = <<>>]
    /\ PoolFrame

\* _sequential_map: one pass of the loop over the items
SequentialItem ==
    /\ pool.stage = "mapping"
    /\ pool.use_sequential
    /\ pool.next_item <= Len(pool.items)
    /\ pool' = [pool EXCEPT
                  !.results = append_outcome(@, pool.next_item,
                                             pool.items[pool.next_item]),
                  !.next_item = @ + 1]
    /\ PoolFrame

Running == {i \in 1..Len(pool.futures) : pool.futures[i] = "running"}
Pending == {i \in 1..Len(pool.futures) : pool.futures[i] = "pending"}

\* a free worker of the executor takes the call submitted first
WorkerStart ==
    /\ pool.stage = "mapping"
    /\ ~pool.use_sequential
    /\ Cardinality(Running) < pool.num_workers
    /\ Pending # {}
    /\ LET i == CHOOSE j \in Pending : \A k \in Pending : j <= k
       IN  pool' = [pool EXCEPT !.futures[i] = "running"]
    /\ PoolFrame

\* a call in a worker ends: func(item) has returned or raised
WorkerEnd(i) ==
    /\ pool.stage = "mapping"
    /\ i \in Running
    /\ pool' = [pool EXCEPT !.futures[i] = "done"]
    /\ PoolFrame

\* _parallel_map: one pass of the loop over as_completed(futures)
ParallelItem(i) ==
    /\ pool.stage = "mapping"
    /\ ~pool.use_sequential
    /\ i \in 1..Len(pool.futures)
    /\ pool.futures[i] = "done"
    /\ i \notin pool.yielded
    /\ pool' = [pool EXCEPT
                  !.results = append_outcome(@, i, pool.items[i]),
                  !.yielded = @ \cup {i}]
    /\ PoolFrame

\* the loop has ended: return results
MapReturn ==
    /\ pool.stage = "mapping"
    /\ IF pool.use_sequential THEN pool.next_item > Len(pool.items)
       ELSE pool.yielded = 1..Len(pool.items)
    /\ pool' = [pool EXCEPT !.stage = "returned"]
    /\ PoolFrame

\* ProcessingPool.__exit__
PoolExit ==
    /\ pool.stage = "returned"
    /\ pool' = [pool EXCEPT !.stage = "exited", !.executor = FALSE]
    /\ PoolFrame

PoolNext ==
    \/ PoolEnter
    \/ \E items \in PoolItems : MapBegin(items)
    \/ SequentialItem
    \/ WorkerStart
    \/ \E i \in 1..MaxItems : WorkerEnd(i)
    \/ \E i \in 1..MaxItems : ParallelItem(i)
    \/ MapReturn
    \/ PoolExit

PoolSpec == PoolInit /\ [][PoolNext]_vars

(***************************************************************************)
(* process_scholarships.main: the orchestrator of the processing steps.    *)
(* One run of the program; each pass of its loop over the steps is a step  *)
(* of the model, run_step included.                                        *)
(***************************************************************************)
valid_steps == {1, 2, 3, 4}
\* the numbers a command line may give: the valid ones, and 0 and 5
StepNumbers == 0..5
StepArgs ==
    {NotGiven}
    \cup {Given(a) : a \in UNION {[1..n -> StepNumbers] : n \in 1..MaxStepArgs}}

\* what run_step comes to: the step's program ends with return code 0, or
\* its file is not there, it ends with another code, it runs into the
\* timeout, or subprocess.run raises
StepOutcomes == {"ok", "not found", "return code", "timed out", "error"}

SeqRange(list) == {list[i] : i \in 1..Len(list)}

RECURSIVE sorted(_)
\* sorted(set), ascending
sorted(set) ==
    IF set = {} THEN <<>>
    ELSE LET least == CHOOSE x \in set : \A y \in set : x <= y
         IN  <<least>> \o sorted(set \ {least})

\* "," in str(n) for an int n: argparse has turned every argument of --steps
\* into an int
ContainsComma(n) == FALSE

\* the steps taken from the command line as they stand
normalize_steps_as_given(arg_steps) == arg_steps

\* main, normalising args.steps
normalize_steps(arg_steps) ==
    IF Len(arg_steps) = 1 /\ ContainsComma(arg_steps[1]) THEN arg_steps
    ELSE sorted(SeqRange(arg_steps))

\* failed_step is 0 where the program has None; exit_code is -1 while the
\* program runs
NewRun ==
    [stage |-> "start", arg_steps |-> <<>>, steps |-> <<>>, position |-> 0,
     runs |-> <<>>, results |-> <<>>, failed_step |-> 0, exit_code |-> -1]

OrchestratorInit ==
    /\ StandaloneBase
    /\ context_server = None
    /\ chat_call = None
    /\ pool = None
    /\ orchestrator = NewRun

OrchestratorFrame ==
    /\ StandaloneFrame
    /\ UNCHANGED <<context_server, chat_call, pool>>

\* main up to its loop: the command line is parsed, the steps are
\* normalised and validated
OrchestratorMain(arg) ==
    /\ orchestrator.stage = "start"
    /\ LET arg_steps == IF arg.given THEN arg.value ELSE <<1, 2, 3, 4>>
           steps == normalize_steps(arg_steps)
       IN  orchestrator' =
             IF SeqRange(steps) \ valid_steps # {}
             THEN [orchestrator EXCEPT !.stage = "exited",
                                       !.arg_steps = arg_steps,
                                       !.steps = steps,
                                       !.exit_code = 2]
             ELSE [orchestrator EXCEPT !.stage = "loop",
                                       !.arg_steps = arg_steps,
                                       !.steps = steps,
                                       !.position = 1]
    /\ OrchestratorFrame

\* one pass of the loop: run_step(step_num, ...) and what main does with
\* what it returns
RunStep(outcome) ==
    /\ orchestrator.stage = "loop"
    /\ orchestrator.position <= Len(orchestrator.steps)
    /\ LET step_num == orchestrator.steps[orchestrator.position]
           success == outcome = "ok"
           o == [orchestrator EXCEPT
                   !.runs = Append(@, [step |-> step_num, outcome |-> outcome]),
                   !.results = Put(@, step_num, [success |-> success])]
       IN  orchestrator' =
             IF ~success
             THEN [o EXCEPT !.failed_step = step_num, !.stage = "summary"]
             ELSE [o EXCEPT !.position = @ + 1]
    /\ OrchestratorFrame

\* the loop has gone through every step
LoopEnd ==
    /\ orchestrator.stage = "loop"
    /\ orchestrator.position > Len(orchestrator.steps)
    /\ orchestrator' = [orchestrator EXCEPT !.stage = "summary"]
    /\ OrchestratorFrame

\* the summary is printed and the program exits
OrchestratorExit ==
    /\ orchestrator.stage = "summary"
    /\ orchestrator' = [orchestrator EXCEPT
                          !.stage = "exited",
                          !.exit_code = IF orchestrator.failed_step # 0
                                        THEN 1 ELSE 0]
    /\ OrchestratorFrame

OrchestratorNext ==
    \/ \E arg \in StepArgs : OrchestratorMain(arg)
    \/ \E outcome \in StepOutcomes : RunStep(outcome)
    \/ LoopEnd
    \/ OrchestratorExit

OrchestratorSpec == OrchestratorInit /\ [][OrchestratorNext]_vars

(***************************************************************************)
(* Properties.                                                             *)
(***************************************************************************)
ErrorKinds == {"Tool not found", "Server not found", "JSON serialization error",
               "Validation error", "Tool execution error", "Unexpected error"}

\* v is the JSON text of a tool's result
IsResultEnvelope(v) == DOMAIN v = {"json"}
\* v is the JSON text of an error object that names tool_name
IsFailureEnvelope(v, tool_name) ==
    /\ DOMAIN v = {"error", "tool_name"}
    /\ v.error \in ErrorKinds
    /\ v.tool_name = tool_name

\* C1: whatever the tool name and the arguments value, call_tool returns
\* (no exception leaves it) and what it returns is either the tool's
\* serialized result or an error object that names the tool.
C1_CallToolAlwaysReturnsEnvelope ==
    lastCall.made =>
        /\ lastCall.exc = NoExc
        /\ \/ IsResultEnvelope(lastCall.value)
           \/ IsFailureEnvelope(lastCall.value, lastCall.tool_name)

\* a registered tool's handler returned a value json.dumps cannot serialize
\* (TypeError), and call_tool answered with an error object
C1_Witness ==
    /\ lastCall.made
    /\ lastCall.arguments = "badkey"
    /\ lastCall.server = "application_data"
    /\ lastCall.exc = NoExc
    /\ IsFailureEnvelope(lastCall.value, lastCall.tool_name)
    /\ lastCall.value.error = "Unexpected error"

HistoryNow == HistoryOf(sessions, session_id)

\* C2: a query makes at most max_iterations + 1 model calls; whatever the
\* model's response to call number max_iterations + 1 is, the query ends
\* there with the iteration-bound error, that error occurs at no other call,
\* and the session's history is then what it was when the query began.
C2_IterationBound ==
    /\ model_calls <= max_iterations + 1
    /\ (pc = "done" /\ model_calls = max_iterations + 1
            /\ result.stage # "model")
          => result = Error("iteration_bound", "RuntimeError")
    /\ (pc = "done" /\ result.stage = "iteration_bound")
          => /\ model_calls = max_iterations + 1
             /\ dispatches >= max_iterations
             /\ HistoryNow = hist_before

\* the model asked for a tool in all its max_iterations + 1 responses and
\* the query ended with the iteration-bound error
C2_Witness ==
    /\ pc = "done"
    /\ result = Error("iteration_bound", "RuntimeError")
    /\ model_calls = max_iterations + 1
    /\ tool_use_blocks(current_response) # <<>>
    /\ session_id \in DOMAIN sessions
    /\ HistoryNow = hist_before

\* C3: when the model has asked for tools in exactly max_iterations
\* consecutive responses and then answers with text only, the query does not
\* end with the iteration-bound error: that answer is inspected and the
\* query goes on to its successful end.
C3_TextAfterNRoundsCompletes ==
    (/\ pc = "done"
     /\ iteration = max_iterations
     /\ model_calls = max_iterations + 1
     /\ result.stage # "model"
     /\ tool_use_blocks(current_response) = <<>>)
        => result.stage \in {"done", "add_interaction"}

Turns(history) ==
    [i \in 1..Len(history) |-> <<history[i].role, history[i].content>>]

\* C5: when process_query succeeds, the session's history is the history it
\* had when the query began followed by exactly two messages, the user's
\* query and then the assistant's final text, however many tool rounds
\* there were: no tool-call or tool-result turn is stored.
C5_SuccessAppendsOnePair ==
    (pc = "done" /\ result.status = "ok") =>
        /\ session_id \in DOMAIN sessions
        /\ Turns(HistoryNow) =
              Turns(hist_before) \o <<<<"user", query>>,
                                      <<"assistant", result.text>>>>

\* a query that took a tool round of two requests succeeded
C5_Witness ==
    /\ pc = "done"
    /\ result.status = "ok"
    /\ model_calls = 2
    /\ dispatches = 2
    /\ Len(messages) = 3
    /\ Len(HistoryNow) = Len(hist_before) + 2

\* the texts of the text blocks of a response
TextParts(content) ==
    LET blocks == SelectSeq(content, IsText)
    IN  [i \in 1..Len(blocks) |-> blocks[i].text]

RECURSIVE Concatenation(_)
\* the texts one after the other
Concatenation(texts) ==
    IF texts = <<>> THEN <<>>
    ELSE Concatenation(SubSeq(texts, 1, Len(texts) - 1)) \o texts[Len(texts)]

RECURSIVE NewlineSeparated(_)
\* the texts one after the other with a newline between neighbours
NewlineSeparated(texts) ==
    IF texts = <<>> THEN <<>>
    ELSE IF Len(texts) = 1 THEN texts[1]
    ELSE NewlineSeparated(SubSeq(texts, 1, Len(texts) - 1))
             \o <<"\n">> \o texts[Len(texts)]

\* the query has ended on a first response without tool_use blocks
EndedOnFirstTextResponse ==
    /\ pc = "done"
    /\ model_calls = 1
    /\ result.stage \in {"done", "add_interaction"}

Requested == tool_use_blocks(current_response)

\* a tool round is over and its results have gone to the model
RoundReported == pc = "awaiting_model" /\ model_calls > 1

IsErrorObject(v) == "error" \in DOMAIN v

\* C7: every request of a batch is dispatched, in order, whatever the
\* earlier requests of the batch came to; when the batch of k requests has
\* been worked through, k dispatches were made for it and k tool results go
\* back to the model.
C7_WholeBatchDispatched ==
    /\ pc = "tools" =>
          /\ tool_index \in 1..(Len(Requested) + 1)
          /\ Len(batch_log) = tool_index - 1
          /\ Len(tool_results) = tool_index - 1
          /\ \A i \in 1..Len(batch_log) : batch_log[i].id = Requested[i].id
    /\ RoundReported =>
          /\ Len(Requested) >= 1
          /\ Len(batch_log) = Len(Requested)
          /\ \A i \in 1..Len(Requested) : batch_log[i].id = Requested[i].id
          /\ Len(messages[Len(messages)].content) = Len(Requested)

\* the first request of a batch of two came to an error object, the second
\* was dispatched to its provider all the same and both results went back
C7_Witness ==
    /\ RoundReported
    /\ Len(Requested) = 2
    /\ IsErrorObject(tool_results[1].content)
    /\ batch_log[2].server = "application_data"
    /\ ~IsErrorObject(tool_results[2].content)
    /\ Len(messages[Len(messages)].content) = 2

\* C8: when a model call follows a tool round, the message list is the list
\* of the first call (which ends with the user's query) plus two turns per
\* round, and its last two turns are the assistant turn with the response
\* that made the requests and then one user turn with the k tool results in
\* the order of the requests, the i-th carrying the id of the i-th request.
C8_TwoTurnsPerRound ==
    RoundReported =>
        LET n == Len(messages)
            first == n - 2 * (model_calls - 1)
        IN  /\ first >= 1
            /\ messages[first] = [role |-> "user", content |-> query]
            /\ \A i \in (first + 1)..n :
                  messages[i].role =
                      IF (i - first) % 2 = 1 THEN "assistant" ELSE "user"
            /\ messages[n - 1] =
                  [role |-> "assistant", content |-> current_response]
            /\ messages[n].role = "user"
            /\ Len(messages[n].content) = Len(Requested)
            /\ \A i \in 1..Len(Requested) :
                  /\ messages[n].content[i].type = "tool_result"
                  /\ messages[n].content[i].tool_use_id = Requested[i].id

\* the second model call of a query follows a batch of two requests
C8_Witness ==
    /\ RoundReported
    /\ model_calls = 2
    /\ Len(Requested) = 2
    /\ Len(messages) = 3
    /\ messages[3].content[1].tool_use_id = <<1, 1>>
    /\ messages[3].content[2].tool_use_id = <<1, 2>>

IsMarkedError(part) == "is_error" \in DOMAIN part /\ part.is_error = TRUE

\* C9: a tool result built from a dispatch that came to an error object is
\* marked is_error = true, and one built from a tool's result is not.
C9_FailuresMarkedAsErrors ==
    \A i \in 1..Len(tool_results) :
        IsMarkedError(tool_results[i]) <=> IsErrorObject(tool_results[i].content)

\* C10: a request that names a tool the registry does not hold is answered
\* with the "Tool not found" error object, no provider's handle_tool_call is
\* awaited for it, the error object is the request's part of the tool-result
\* turn, and the query goes on to its next model call.
C10_UnknownToolIsReportedBack ==
    /\ \A i \in 1..Len(batch_log) :
          (pc \in {"tools", "awaiting_model"}
              /\ Requested[i].name \notin DOMAIN registry.tools)
            => /\ batch_log[i].server = None
               /\ tool_results[i].tool_use_id = Requested[i].id
               /\ tool_results[i].content =
                    ErrorEnvelope("Tool not found", Requested[i].name)
    /\ RoundReported => messages[Len(messages)].content = tool_results
    /\ pc \in {"tools", "awaiting_model"} => result = NoResult

\* the model has been called again after a batch whose request named an
\* unknown tool
C10_Witness ==
    /\ RoundReported
    /\ model_calls = 2
    /\ Len(Requested) = 1
    /\ Requested[1].name = "delete_everything"
    /\ messages[Len(messages)].content[1].content =
          ErrorEnvelope("Tool not found", "delete_everything")

\* the query in progress has ended because a model call raised
ModelCallFailed == pc = "done" /\ result.stage = "model"

\* C11: when a model call raises, whether the first of the query or a later
\* one, the query ends there with an error: that step makes no model call
\* and no dispatch and changes neither the providers nor the sessions, and
\* the only step that follows is process_query's exit, so the call is not
\* made again and nothing is dispatched after it.  No step taken while a
\* model call is outstanding makes another model call.
C11_ModelFailureIsFatal ==
    [][/\ pc = "awaiting_model" => model_calls' = model_calls
       /\ (pc = "awaiting_model" /\ result'.stage = "model")
            => /\ pc' = "done"
               /\ result'.status = "error"
               /\ model_calls' = model_calls
               /\ dispatches' = dispatches
               /\ UNCHANGED <<servers, sessions, messages>>
       /\ ModelCallFailed
            => /\ pc' = "idle"
               /\ model_calls' = 0
               /\ dispatches' = 0
               /\ UNCHANGED <<servers, sessions>>]_vars

\* the second model call of a query, made after a tool round, has failed
C11_Witness ==
    /\ ModelCallFailed
    /\ result = Error("model", "RuntimeError")
    /\ model_calls = 2
    /\ dispatches = 1
    /\ iteration = 1

\* the names a provider's list of the per-provider index holds
ListedUnder(reg, s) ==
    {reg.server_tools[s][i] : i \in 1..Len(reg.server_tools[s])}

\* every name of the registry has one entry and one owner, and is listed
\* once, under its owner
OneOwnerPerName(reg) ==
    /\ Len(reg.order) = Cardinality(DOMAIN reg.tools)
    /\ {reg.order[i] : i \in 1..Len(reg.order)} = DOMAIN reg.tools
    /\ \A n \in DOMAIN reg.tools :
          /\ reg.tools[n].server_name \in DOMAIN reg.server_tools
          /\ \A s \in DOMAIN reg.server_tools :
                n \in ListedUnder(reg, s) <=> s = reg.tools[n].server_name
    /\ \A s \in DOMAIN reg.server_tools :
          /\ ListedUnder(reg, s) \subseteq DOMAIN reg.tools
          /\ Cardinality(ListedUnder(reg, s)) = Len(reg.server_tools[s])

\* C12: in every state of a ToolRegistry each name has exactly one owning
\* provider; register called with a name the registry holds, for the same or
\* for another provider, raises ValueError and leaves the registry as it was,
\* and a register call that returns adds the one entry it was called with.
C12_OneOwnerAndNoOverwrite ==
    /\ OneOwnerPerName(registry)
    /\ lastRegister.made =>
          /\ lastRegister.tool_name \in DOMAIN lastRegister.before.tools
                => /\ lastRegister.exc = "ValueError"
                   /\ registry = lastRegister.before
          /\ lastRegister.exc # NoExc => registry = lastRegister.before
          /\ lastRegister.exc = NoExc
                => /\ DOMAIN registry.tools =
                        DOMAIN lastRegister.before.tools
                            \cup {lastRegister.tool_name}
                   /\ registry.tools[lastRegister.tool_name].server_name =
                        lastRegister.server_name
                   /\ \A n \in DOMAIN lastRegister.before.tools :
                         registry.tools[n] = lastRegister.before.tools[n]

\* a name owned by one provider was registered again for another provider:
\* the call raised and the owner is who it was
C12_Witness ==
    /\ lastRegister.made
    /\ lastRegister.tool_name \in DOMAIN lastRegister.before.tools
    /\ lastRegister.before.tools[lastRegister.tool_name].server_name
          # lastRegister.server_name
    /\ lastRegister.exc = "ValueError"
    /\ registry.tools[lastRegister.tool_name].server_name
          # lastRegister.server_name
    /\ Cardinality(DOMAIN registry.tools) >= 2

\* every provider is initialized, every register_tool call of its
\* initialize() went through, and the registry holds the providers' names
\* and no other, each under the provider that registered it
FullyRegistered ==
    /\ DOMAIN servers = ServerNames
    /\ \A name \in ServerNames :
          /\ servers[name].initialized
          /\ Len(servers[name].tools) = Len(ServerToolNames[name])
          /\ \A n \in ToolNamesOf(servers[name]) :
                /\ n \in DOMAIN registry.tools
                /\ registry.tools[n].server_name = name
    /\ DOMAIN registry.tools =
          UNION {ToolNamesOf(servers[name]) : name \in ServerNames}

\* the application has served something: a session, a query, a list of its
\* tools, a dispatch
Served ==
    \/ used_ids # {}
    \/ sessions # <<>>
    \/ pc # "idle"
    \/ lastCall.made
    \/ lastDescribe.made
    \/ dispatches > 0

\* C13: initialize() returns only when every provider was initialized and
\* every name registered; when a provider's initialize() or a registration
\* raises, initialize() raises, it stays failed, and nothing is ever served:
\* no session, no query, no description of the tools, no dispatch.  What is
\* served once initialize() was called is served from the full registry.
C13_FailedStartupServesNothing ==
    /\ [](/\ initState = "ready" => FullyRegistered
          /\ initState = "failed" => ~Served /\ ~FullyRegistered
          /\ (Served /\ initState # "created") => FullyRegistered)
    /\ [][initState = "failed" => initState' = "failed"]_vars

\* two providers registered the same name: the registry refused the second,
\* initialize() raised with the registry partly filled, time has passed and
\* nothing was served
C13_Witness ==
    /\ initState = "failed"
    /\ provider_set = "collision"
    /\ registry.tools["get_application"].server_name = "application_data"
    /\ "get_step_output" \in DOMAIN registry.tools
    /\ now = MaxTime
    /\ ~Served

\* C14: over any sequence of initialize, get_tools and handle_tool_call
\* calls on a provider its initialize() body, which registers the tools, is
\* entered at most once, and no initialize() call raises: on a provider that
\* is set up it does nothing.
C14_SetupRunsAtMostOnce ==
    /\ \A n \in ServerNames : servers[n].setups <= 1
    /\ \A t \in Tasks : tasks[t].op = "initialize" => tasks[t].exc = NoExc

\* the provider called n has not been touched
Fresh(srv, n) ==
    /\ srv[n].setups = 0
    /\ ~srv[n].initialized
    /\ srv[n].tools = <<>>

\* its setup has run once, to the end, and the provider knows
SetUpOnce(srv, n) ==
    /\ srv[n].setups = 1
    /\ srv[n].initialized
    /\ Len(srv[n].tools) = Len(ServerToolNames[n])
    /\ srv[n].handlers = ToolNamesOf(srv[n])

\* no provider was ever set up but by a first use
OnlyFirstUses(srv) == \A n \in ServerNames : Fresh(srv, n) \/ SetUpOnce(srv, n)

PassDone(n) ==
    /\ n \in DOMAIN servers
    /\ servers[n].setups = 1
    /\ servers[n].initialized
    /\ [i \in 1..Len(servers[n].tools) |-> servers[n].tools[i].name]
          = ServerToolNames[n]
    /\ n \in DOMAIN registry.server_tools
    /\ registry.server_tools[n] = ServerToolNames[n]

\* the loop of initialize() is about to initialize the analysis provider
AnalysisPassNext ==
    /\ initState = "initializing"
    /\ ServerOrder[init_index] = "analysis"

\* C16: when the loop of MCPClientManager.initialize() comes to the analysis
\* provider the record-access provider is fully initialized; the pass of the
\* analysis provider leaves the record-access provider, the one object both
\* the manager and the analysis provider hold, as it was; and the setup of
\* the record-access provider is never entered a second time.
C16_DataServerInitializedFirstAndOnce ==
    /\ [](/\ AnalysisPassNext => PassDone("application_data")
          /\ \A n \in DOMAIN servers : servers[n].setups <= 1)
    /\ [][(AnalysisPassNext /\ <<init_index, initState>>' # <<init_index, initState>>)
            => /\ servers'["application_data"] = servers["application_data"]
               /\ initState' = "initializing"
               /\ servers'["analysis"].initialized]_vars

\* the pass of the analysis provider is done, with the record-access
\* provider set up once
C16_Witness ==
    /\ initState = "initializing"
    /\ ServerOrder[init_index] = "context"
    /\ PassDone("analysis")
    /\ PassDone("application_data")

\* C17: once MCPClientManager.initialize() has returned, nothing that the
\* application does (get_available_tools, get_tool, call_tool, process_query
\* with its dispatches) adds, removes or changes a registry entry.
C17_RegistryReadOnlyAfterStartup ==
    [][initState = "ready" => /\ registry' = registry
                              /\ initState' = "ready"]_vars

\* after start-up a query was answered and committed, and get_tool was asked
\* for a name that is not registered: the registry is the one start-up left
C17_Witness ==
    /\ initState = "ready"
    /\ lastDescribe.made
    /\ lastDescribe.op = "get_tool"
    /\ lastDescribe.tool_name \notin DOMAIN registry.tools
    /\ \E s \in DOMAIN sessions : sessions[s].history # <<>>
    /\ FullyRegistered

\* the schema given to the model is that of the registry entry of its name
\* and of the descriptor its provider registered
AdvertisesEntry(schema, reg, srv) ==
    /\ DOMAIN schema = {"name", "description", "input_schema"}
    /\ schema.name \in DOMAIN reg.tools
    /\ schema.name = reg.tools[schema.name].tool_schema.name
    /\ schema.description = reg.tools[schema.name].tool_schema.description
    /\ schema.input_schema = reg.tools[schema.name].tool_schema.inputSchema
    /\ \E k \in 1..Len(srv[reg.tools[schema.name].server_name].tools) :
          LET d == srv[reg.tools[schema.name].server_name].tools[k]
          IN  /\ d.name = schema.name
              /\ d.description = schema.description
              /\ d.input_schema = schema.input_schema

\* a dispatch of the name comes to the handler of the provider that owns it
Resolves(tool_name, reg, srv) ==
    /\ get_server_for_tool(reg, tool_name) \in DOMAIN srv
    /\ tool_name \in srv[get_server_for_tool(reg, tool_name)].handlers
    /\ \A a \in DictArgs :
          call_tool(reg, srv, tool_name, a).server
             = reg.tools[tool_name].server_name

\* get_available_tools is called and returns
DescribeStep ==
    /\ ~lastDescribe.made
    /\ lastDescribe'.made
    /\ lastDescribe'.op = "get_available_tools"

\* C18: get_available_tools returns one schema for each registry entry and
\* no other, each with the name, the description and the input schema of the
\* registered descriptor; it changes neither the registry nor the providers
\* nor the sessions; and every name it advertises is dispatched to the
\* provider that owns it.
C18_DescribeIsPureAndComplete ==
    [][DescribeStep
         => /\ Len(lastDescribe'.value) = Cardinality(DOMAIN registry.tools)
            /\ \A i, j \in 1..Len(lastDescribe'.value) :
                  lastDescribe'.value[i].name = lastDescribe'.value[j].name
                     => i = j
            /\ \A i \in 1..Len(lastDescribe'.value) :
                  /\ AdvertisesEntry(lastDescribe'.value[i], registry, servers)
                  /\ Resolves(lastDescribe'.value[i].name, registry, servers)
            /\ UNCHANGED <<registry, servers, sessions, used_ids, initState>>]_vars

\* all the tools of the four providers have been described, in the order in
\* which they were registered
C18_Witness ==
    /\ pc = "described"
    /\ lastDescribe.op = "get_available_tools"
    /\ FullyRegistered
    /\ Len(lastDescribe.value) = Len(registry.order)
    /\ lastDescribe.value[1].name = "get_application"
    /\ lastDescribe.value[Len(registry.order)].name = "get_step_output"

\* the store has no session of the id
Unknown(sid) == sid \notin DOMAIN sessions

\* the session of the id was last accessed longer ago than the timeout
Expired(sid) ==
    /\ sid \in DOMAIN sessions
    /\ now - sessions[sid].last_accessed > SessionTimeout

\* process_query is called with a session id that is unknown or expired
QueryWithoutSession ==
    /\ pc = "idle"
    /\ session_id' # None
    /\ Unknown(session_id') \/ Expired(session_id')

\* the call has failed on the session, with no model call and no dispatch
FailedOnSession ==
    /\ pc' = "done"
    /\ result'.status = "error"
    /\ result'.stage = "session"
    /\ result'.exc = "ValueError"
    /\ model_calls' = 0
    /\ dispatches' = 0
    /\ messages' = <<>>
    /\ UNCHANGED <<servers, registry, lastCall>>

\* C19 as stated: with an unknown or expired session id process_query fails
\* before any model call or dispatch and the session store is as it was.
C19_FailedLoadLeavesStoreUnchanged ==
    [][QueryWithoutSession => /\ FailedOnSession
                              /\ sessions' = sessions]_vars

\* C19, amended: with an unknown or expired session id process_query fails
\* before any model call or dispatch; with an unknown id the session store
\* is as it was, with an expired one the expired session, and nothing else,
\* has been removed from it.
C19_FailedLoadOnlyRemovesExpired ==
    [][QueryWithoutSession
         => /\ FailedOnSession
            /\ sessions' = IF Expired(session_id')
                           THEN delete_session(sessions, session_id')
                           ELSE sessions]_vars

\* a query on a session that had expired has failed, and the session is gone
C19_Witness ==
    /\ pc = "done"
    /\ result.stage = "session"
    /\ session_id \in used_ids
    /\ session_id \notin DOMAIN sessions
    /\ model_calls = 0

\* process_query is called for a session that the store holds and that has
\* not expired, by an agent whose client can describe its tools
QueryOnLiveSession ==
    /\ pc = "idle"
    /\ session_id' # None
    /\ ~Unknown(session_id')
    /\ ~Expired(session_id')
    /\ mcpHasGetTools

\* the turns of a history as messages for the model, in their order
TurnsAsMessages(history) ==
    [i \in 1..Len(history) |->
        [role |-> history[i].role, content |-> history[i].content]]

\* C20: for a session whose history holds the exchanges of earlier
\* successful queries (none, one or more), the next process_query comes to
\* its first model call, and the messages of that call are the turns of the
\* history in their order followed by the new query as a user turn.
C20_HistoryReplayedThenQuery ==
    [][QueryOnLiveSession
         => /\ pc' = "awaiting_model"
            /\ model_calls' = 1
            /\ messages' = TurnsAsMessages(sessions[session_id'].history)
                             \o <<[role |-> "user", content |-> query']>>]_vars

\* the error kind call_tool reports when the handler of the tool fails on its
\* own account
ProviderInternalKind(tool_name) ==
    call_tool(registry, servers, tool_name, "raises").value.error

\* C24: a dispatch with a dictionary of arguments that fails is reported by
\* kind: a name nobody registered as not found, arguments the handler's
\* parameters reject as invalid arguments, any other failure of the handler
\* as a tool execution error; and the kind reported for rejected arguments
\* is never the kind reported for a failure of the handler itself.
C24_FailureKindsDistinct ==
    (lastCall.made /\ lastCall.arguments \in DictArgs) =>
        /\ lastCall.tool_name \notin DOMAIN registry.tools
              => /\ IsErrorObject(lastCall.value)
                 /\ lastCall.value.error = "Tool not found"
        /\ (lastCall.tool_name \in DOMAIN registry.tools
               /\ lastCall.arguments = "raises")
              => /\ IsErrorObject(lastCall.value)
                 /\ lastCall.value.error = "Tool execution error"
        /\ (lastCall.tool_name \in DOMAIN registry.tools
               /\ lastCall.arguments = "rejected")
              => /\ IsErrorObject(lastCall.value)
                 /\ lastCall.value.error \notin
                      {"Tool not found", ProviderInternalKind(lastCall.tool_name)}

\* register_tool has been called and has returned or raised
RegisterToolStep ==
    /\ lastRegister'.made
    /\ <<servers, lastRegister>>' # <<servers, lastRegister>>

\* C25: register_tool raises ValueError exactly when the provider has a tool
\* of the name; the provider is then as it was before the call, schemas and
\* handlers alike, so that the schema first registered under a name stays.
\* When it does not raise, the schema and the handler are added and nothing
\* else of the provider changes.
C25_DuplicateToolRefused ==
    [][RegisterToolStep
         => /\ lastRegister'.before = servers[lastRegister'.server_name]
            /\ (lastRegister'.exc = "ValueError")
                 <=> (lastRegister'.tool_name
                        \in ToolNamesOf(servers[lastRegister'.server_name]))
            /\ lastRegister'.exc = "ValueError" => servers' = servers
            /\ lastRegister'.exc = NoExc
                 => servers' =
                      [servers EXCEPT ![lastRegister'.server_name] =
                         [@ EXCEPT !.tools = Append(@, lastRegister'.schema),
                                   !.handlers = @ \cup {lastRegister'.tool_name}]]
            /\ \A n \in ServerNames :
                  SubSeq(servers'[n].tools, 1, Len(servers[n].tools))
                     = servers[n].tools]_vars

\* a second schema was offered under a name the provider has, with another
\* description: the call raised and the provider holds the first schema
C25_Witness ==
    /\ lastRegister.made
    /\ lastRegister.exc = "ValueError"
    /\ lastRegister.server_name = "application_data"
    /\ servers["application_data"] = lastRegister.before
    /\ \E i \in 1..Len(servers["application_data"].tools) :
          /\ servers["application_data"].tools[i].name = lastRegister.tool_name
          /\ servers["application_data"].tools[i].description
                # lastRegister.schema.description

\* the query in progress has ended in a fatal error of the conversation loop
EndedFatally == pc = "done" /\ result.stage \in FatalStages

\* process_query is called for a live session whose last query ended fatally
QueryAfterFatalError ==
    /\ pc = "idle"
    /\ session_id' \in fatal_sessions
    /\ ~Unknown(session_id')
    /\ ~Expired(session_id')
    /\ mcpHasGetTools

\* C22: when process_query ends in a fatal error (a model call failed, the
\* iteration bound was exceeded) the session is still in the store, with
\* the history it had, and it leaves the store only once it has expired;
\* the next process_query on it, made before that, loads it and gets to its
\* first model call, from where a model that answers lets it succeed.
C22_SessionUsableAfterFatalError ==
    /\ [](/\ EndedFatally
             => /\ session_id \in DOMAIN sessions
                /\ sessions[session_id].history = hist_before
          /\ pc = "idle"
             => \A s \in fatal_sessions \cap DOMAIN sessions :
                   sessions[s].history = <<>>)
    /\ [][/\ \A s \in DOMAIN sessions \ DOMAIN sessions' : Expired(s)
          /\ QueryAfterFatalError
               => /\ session_id' \in DOMAIN sessions'
                  /\ pc' = "awaiting_model"
                  /\ model_calls' = 1
                  /\ result' = NoResult]_vars

\* a query has succeeded on a session whose query before had ended fatally
C22_Witness ==
    /\ pc = "done"
    /\ result.status = "ok"
    /\ session_id \in fatal_sessions
    /\ Len(sessions[session_id].history) = 2

\* what the preamble has to say of the focused record of a session
FocusOf(session) ==
    IF session.context.current_application = None THEN "None selected"
    ELSE session.context.current_application

\* C23: the system preamble that process_query builds for a live session
\* names the record id that the context of the session holds under
\* current_application, and says that none is selected only when the context
\* holds none.
C23_PreambleNamesFocusedRecord ==
    [][QueryOnLiveSession
         => system_prompt'.focus = FocusOf(sessions[session_id'])]_vars

\* C21: the message list that process_query builds for a session holds, before
\* the new query, at most a fixed window of history turns, however long the
\* history of the session in the store is.
C21_ReplayBoundedByWindow ==
    (lastStore.op = "build_messages" /\ lastStore.exc = NoExc)
        => Len(lastStore.value) - 1 <= HistoryWindow

\* the sequence h is the beginning of the sequence g
IsPrefix(h, g) == Len(h) <= Len(g) /\ SubSeq(g, 1, Len(h)) = h

\* C27: whatever method of the SessionManager is called (add_message,
\* add_interaction, save_session, update_context, load_session), the history
\* of a session that stays in the store begins, after the call, with the
\* history it had before the call.
C27_HistoryAppendOnly ==
    [][\A s \in DOMAIN sessions \cap DOMAIN sessions' :
          IsPrefix(sessions[s].history, sessions'[s].history)]_vars

\* the method op of the SessionManager has been called and has returned or
\* raised
StoreStep(op) ==
    /\ lastStore'.op = op
    /\ \/ sessions' # sessions
       \/ lastStore.op # op
       \/ lastStore'.session_id # lastStore.session_id
       \/ lastStore'.found # lastStore.found
       \/ lastStore'.exc # lastStore.exc

LoadStep == StoreStep("load_session")

\* C28: load_session returns a session only if the time since its last
\* access is within the timeout, and then sets its last access to the time
\* of the call and changes nothing else; a session whose time is over is
\* removed from the store and the call raises; for an id the store does not
\* hold the call raises and changes nothing.  An id that has left the store
\* never comes back, so every later load of it raises as not found.
C28_ExpiredSessionsAreNotLoaded ==
    /\ [][LoadStep
            => /\ Unknown(lastStore'.session_id)
                    => /\ lastStore'.exc = "ValueError"
                       /\ sessions' = sessions
               /\ Expired(lastStore'.session_id)
                    => /\ lastStore'.exc = "ValueError"
                       /\ sessions' =
                            [s \in DOMAIN sessions \ {lastStore'.session_id}
                               |-> sessions[s]]
               /\ lastStore'.exc = NoExc
                    => /\ lastStore'.session_id \in DOMAIN sessions
                       /\ now - sessions[lastStore'.session_id].last_accessed
                             <= SessionTimeout
                       /\ sessions' = [sessions EXCEPT
                             ![lastStore'.session_id].last_accessed = now]
                       /\ lastStore'.value = sessions'[lastStore'.session_id]
               /\ lastStore'.exc \in {NoExc, "ValueError"}]_vars
    /\ [][\A s \in used_ids \ DOMAIN sessions : s \notin DOMAIN sessions']_vars

\* a load found its session in the store, expired: it raised, and the
\* session is gone
C28_Witness ==
    /\ lastStore.op = "load_session"
    /\ lastStore.found
    /\ lastStore.exc = "ValueError"
    /\ lastStore.session_id \in used_ids \ DOMAIN sessions

\* cleanup_expired has been called and has returned
CleanupStep ==
    /\ lastStore'.op = "cleanup_expired"
    /\ \/ lastStore.op # "cleanup_expired"
       \/ sessions' # sessions
       \/ lastStore'.exc # lastStore.exc
       \/ IF lastStore.exc = NoExc /\ lastStore'.exc = NoExc
          THEN lastStore'.value # lastStore.value ELSE FALSE

\* C29: cleanup_expired removes exactly the sessions whose time since the
\* last access is longer than the timeout, returns their number, and leaves
\* every other session as it was.
C29_CleanupRemovesExactlyExpired ==
    [][CleanupStep
         => /\ lastStore'.exc = NoExc
            /\ DOMAIN sessions' = {s \in DOMAIN sessions : ~Expired(s)}
            /\ \A s \in DOMAIN sessions' : sessions'[s] = sessions[s]
            /\ lastStore'.value =
                  Cardinality({s \in DOMAIN sessions : Expired(s)})]_vars

\* a cleanup removed a session and kept another
C29_Witness ==
    /\ lastStore.op = "cleanup_expired"
    /\ lastStore.exc = NoExc
    /\ lastStore.value >= 1
    /\ DOMAIN sessions # {}
    /\ used_ids \ DOMAIN sessions # {}

\* messages i and i+1 of history h are the query of task t and its answer
OwnPair(h, i, t) ==
    /\ h[i].role = "user"
    /\ h[i].content = TaskQuery[t]
    /\ h[i + 1].role = "assistant"
    /\ h[i + 1].content = TaskAnswer[t]

\* history h is a list of complete pairs, each a query and its own answer
WellPaired(h) ==
    /\ Len(h) % 2 = 0
    /\ \A i \in 1..Len(h) : i % 2 = 1 => \E t \in Tasks : OwnPair(h, i, t)

\* the calls that have stored their query in session s and not yet their
\* answer
Saving(s) ==
    {t \in Tasks : tasks[t].stage = "saved_user" /\ tasks[t].session_id = s}

\* task t's call on session s has returned its answer
Succeeded(t, s) ==
    /\ tasks[t].stage = "returned"
    /\ tasks[t].exc = NoExc
    /\ tasks[t].session_id = s

\* C26: with several process_query calls in progress on one session, the
\* history of the session is at every moment a list of complete pairs, each
\* a query followed at once by its own answer, but for the query of the one
\* call that is between its two appends, which is then the last message; a
\* call that has succeeded leaves its own pair at the end of the history.
C26_PairsNeverInterleaved ==
    \A s \in DOMAIN sessions :
        LET h == sessions[s].history
        IN  /\ Saving(s) = {} => WellPaired(h)
            /\ \A t \in Saving(s) :
                  /\ Len(h) >= 1
                  /\ WellPaired(SubSeq(h, 1, Len(h) - 1))
                  /\ h[Len(h)].role = "user"
                  /\ h[Len(h)].content = TaskQuery[t]
            /\ \A t \in Tasks :
                  Succeeded(t, s) => /\ Len(h) >= tasks[t].began_with + 2
                                     /\ OwnPair(h, Len(h) - 1, t)

\* two calls began on the empty history of one session, and both have
\* succeeded: the history holds the pair of the one, then that of the other
C26_Witness ==
    \E s \in DOMAIN sessions, t \in Tasks :
        /\ Succeeded(t, s)
        /\ tasks[t].began_with = 0
        /\ Len(sessions[s].history) = 4
        /\ \E u \in Tasks \ {t} : OwnPair(sessions[s].history, 1, u)

\* the session of the call of task t that takes this step
CallSession(t) ==
    IF tasks[t].stage = "idle" THEN tasks'[t].session_id
    ELSE tasks[t].session_id

\* C30: a step of a process_query call on one session leaves every other
\* session in the store, with the history and the context it had, whatever
\* the other calls in progress.
C30_OtherSessionsUntouched ==
    [][\A t \in Tasks :
          tasks'[t] # tasks[t]
            => \A s \in DOMAIN sessions \ {CallSession(t)} :
                  /\ s \in DOMAIN sessions'
                  /\ sessions'[s].history = sessions[s].history
                  /\ sessions'[s].context = sessions[s].context]_vars

\* a call has stored its interaction in its session while a call on another
\* session, whose context is set, is suspended in a handler
C30_Witness ==
    \E t \in Tasks, u \in Tasks :
        /\ tasks[t].stage = "returned"
        /\ tasks[t].exc = NoExc
        /\ tasks[u].stage = "in_handler"
        /\ tasks[u].session_id # tasks[t].session_id
        /\ {tasks[t].session_id, tasks[u].session_id} \subseteq DOMAIN sessions
        /\ sessions[tasks[u].session_id].context.current_application = "app1"
        /\ Len(sessions[tasks[t].session_id].history) = 2

\* the query in progress is in the conversation loop
InLoop == pc \in {"awaiting_model", "tools"}

\* C31: whatever the model service answers, a query makes at most
\* max_iterations + 1 model calls and runs at most max_iterations batches of
\* tool calls (the model calls made are the batches begun and one more while
\* the model is awaited, and the batches begun while a batch runs), and a
\* query that has entered the loop ends, with a final text or with an error.
C31_QueryTerminatesWithinBound ==
    /\ [](/\ model_calls <= max_iterations + 1
          /\ iteration <= max_iterations
          /\ pc = "awaiting_model" => model_calls = iteration + 1
          /\ pc = "tools" => model_calls = iteration
          /\ pc = "done" => result.status \in {"ok", "error"})
    /\ InLoop ~> (pc = "done")

\* a query has run max_iterations batches and made max_iterations + 1 model
\* calls, and has ended
C31_Witness ==
    /\ pc = "done"
    /\ iteration = max_iterations
    /\ model_calls = max_iterations + 1
    /\ dispatches >= max_iterations

\* the names a list holds
Listed(list) == {list[i] : i \in 1..Len(list)}

RECURSIVE SumOver(_, _)
\* the sum of counts[k] over the keys
SumOver(counts, keys) ==
    IF keys = {} THEN 0
    ELSE LET k == CHOOSE x \in keys : TRUE
         IN  counts[k] + SumOver(counts, keys \ {k})

\* C32: after any sequence of register, unregister and clear, a name is
\* listed under a provider exactly when the name map assigns it to that
\* provider, no list holds a name twice, no provider has an empty list, and
\* the counts per provider that get_stats gives add up to its total.
C32_ProviderIndexAgreesWithNameMap ==
    /\ \A p \in DOMAIN registry.server_tools :
          /\ registry.server_tools[p] # <<>>
          /\ Cardinality(Listed(registry.server_tools[p]))
                = Len(registry.server_tools[p])
          /\ \A n \in Listed(registry.server_tools[p]) :
                /\ n \in DOMAIN registry.tools
                /\ registry.tools[n].server_name = p
    /\ \A n \in DOMAIN registry.tools :
          /\ registry.tools[n].server_name \in DOMAIN registry.server_tools
          /\ n \in Listed(registry.server_tools[registry.tools[n].server_name])
    /\ LET stats == get_stats(registry)
       IN  /\ stats.total_tools = Cardinality(DOMAIN registry.tools)
           /\ SumOver(stats.tools_per_server, DOMAIN stats.tools_per_server)
                = stats.total_tools

\* unregister has removed the only name of a provider while another
\* provider keeps two names
C32_Witness ==
    /\ lastRegister.made
    /\ lastRegister.exc = NoExc
    /\ lastRegister.tool_name \in DOMAIN lastRegister.before.tools
    /\ lastRegister.tool_name \notin DOMAIN registry.tools
    /\ lastRegister.before.tools[lastRegister.tool_name].server_name
          \notin DOMAIN registry.server_tools
    /\ \E p \in DOMAIN registry.server_tools :
          Len(registry.server_tools[p]) = 2

\* the roles of a list of messages alternate, and the first and the last
\* message are user turns
AlternatesFromUserToUser(msgs) ==
    /\ msgs # <<>>
    /\ msgs[1].role = "user"
    /\ msgs[Len(msgs)].role = "user"
    /\ \A i \in 1..(Len(msgs) - 1) : msgs[i].role # msgs[i + 1].role

\* C33: at every model call of a query, the first and every later one, the
\* roles of the message list alternate and the list begins and ends with a
\* user turn.
C33_MessagesAlternate ==
    pc = "awaiting_model" => AlternatesFromUserToUser(messages)

\* a model call after a batch of tool calls, in a query on a session whose
\* history held exchanges
C33_Witness ==
    /\ pc = "awaiting_model"
    /\ model_calls >= 2
    /\ hist_before # <<>>
    /\ Len(messages) = 2 * Len(hist_before) + 2 * model_calls - 1

\* the focus of a session as get_current_application reports it, and as the
\* session's context data hold it
Focused(sid) == Get(context_server.current_applications, sid)
StoredFocus(sid) ==
    IF sid \in DOMAIN context_server.contexts
    THEN Get(context_server.contexts[sid], "current_application_id")
    ELSE None

\* C34: in the context provider, after any sequence of update_context,
\* set_current_application and get_current_application calls, the focused
\* application that get_current_application reports for a session and the
\* current_application_id in that session's context data are the same
\* whenever either of the two is set.
C34_FocusAgreesWithContextData ==
    \A sid \in ContextSessions :
        (Focused(sid) # None \/ StoredFocus(sid) # None)
            => Focused(sid) = StoredFocus(sid)

\* get_messages has returned and lastStore holds what it returned
GotMessages == lastStore.op = "get_messages" /\ lastStore.exc = NoExc

\* the last k entries of list, all of them when it has fewer
LastEntries(list, k) ==
    SubSeq(list, (IF k < Len(list) THEN Len(list) - k ELSE 0) + 1, Len(list))

\* a get_messages call that returns leaves every history as it was
GetMessagesKeepsHistories ==
    [][(lastStore'.op = "get_messages" /\ lastStore'.exc = NoExc)
         => /\ DOMAIN sessions' = DOMAIN sessions
            /\ \A s \in DOMAIN sessions :
                   sessions'[s].history = sessions[s].history]_vars

Attempts == Len(chat_call.outcomes)
AllRetryable(n) == \A i \in 1..n : chat_call.outcomes[i] \in RetryableErrors

\* C36: _chat_with_retry makes at most max_retries attempts; it returns the
\* response of the first attempt that succeeds and makes no attempt after
\* it; between two attempts it waits 2s, 4s, 8s and so on, and it does not
\* wait after the last attempt; when max_retries attempts have failed with
\* an exception the except clause names it raises OllamaConnectionError.
C36_RetriesWithBackoff ==
    /\ chat_call.stage # "idle" =>
          /\ Attempts <= chat_call.max_retries \/ Attempts = 0
          /\ AllRetryable(Attempts - 1)
          /\ \A i \in 1..Len(chat_call.sleeps) : chat_call.sleeps[i] = 2 ^ i
          /\ Len(chat_call.sleeps) < chat_call.max_retries \/ Attempts = 0
    /\ chat_call.stage = "sleeping" =>
          /\ AllRetryable(Attempts)
          /\ Len(chat_call.sleeps) = Attempts
    /\ chat_call.stage = "loop" =>
          /\ AllRetryable(Attempts)
          /\ Len(chat_call.sleeps) =
                IF Attempts >= chat_call.max_retries /\ Attempts > 0
                THEN Attempts - 1 ELSE Attempts
    /\ chat_call.stage = "returned" =>
          /\ chat_call.outcomes[Attempts] = "ok"
          /\ chat_call.value = ResponseContent(chat_call.final_messages)
          /\ Len(chat_call.sleeps) = Attempts - 1
    /\ (chat_call.stage = "raised" /\ AllRetryable(Attempts)) =>
          /\ chat_call.exc = "OllamaConnectionError"
          /\ Attempts = (IF chat_call.max_retries > 0
                         THEN chat_call.max_retries ELSE 0)
          /\ Len(chat_call.sleeps) = (IF Attempts > 0 THEN Attempts - 1 ELSE 0)
    /\ (chat_call.stage = "loop" /\ Attempts >= chat_call.max_retries) =>
          ENABLED ChatExhausted

\* four attempts failed, with waits of 2, 4 and 8 seconds between them
C36_Witness ==
    /\ chat_call.stage = "raised"
    /\ chat_call.exc = "OllamaConnectionError"
    /\ Attempts = 4
    /\ chat_call.sleeps = <<2, 4, 8>>

\* the places in results of the record of the item at place i
ResultsOf(i) == {k \in 1..Len(pool.results) : pool.results[k].item = i}

\* C37: map_unordered returns exactly one result for each item of its input,
\* in sequential and in parallel mode: the worker's result for an item it
\* returned for and a failure record for an item it raised for, with the
\* results of the other items all there; in sequential mode the results
\* are in the order of the input.
C37_OneResultPerItem ==
    /\ pool.stage \in {"mapping", "returned"} =>
          \A i \in 1..Len(pool.items) : Cardinality(ResultsOf(i)) <= 1
    /\ pool.stage = "returned" =>
          /\ Len(pool.results) = Len(pool.items)
          /\ \A i \in 1..Len(pool.items) :
                /\ Cardinality(ResultsOf(i)) = 1
                /\ \A k \in ResultsOf(i) :
                      /\ pool.results[k].success = (pool.items[i] = "ok")
                      /\ pool.items[i] = "raise" =>
                            DOMAIN pool.results[k] = {"success", "error", "item"}
          /\ pool.use_sequential =>
                \A k \in 1..Len(pool.results) : pool.results[k].item = k

\* a parallel map of three items, the second failed, returned with the
\* results in another order than the input
C37_Witness ==
    /\ pool.stage = "returned"
    /\ ~pool.use_sequential
    /\ Len(pool.items) = 3
    /\ pool.items[2] = "raise"
    /\ pool.results[1].item = 3
    /\ pool.results[3].item = 2

\* the steps asked for on the command line
StepsAsked == SeqRange(orchestrator.arg_steps)
StepsRun == orchestrator.runs

\* C38: the orchestrator runs steps that were asked for, in ascending order
\* of their numbers and each at most once, and no step is started after a
\* step that failed; when it ends, either a step failed and it was the last
\* one run, or every step asked for was run.
C38_StepsAscendingUntilFirstFailure ==
    /\ \A k \in 1..Len(StepsRun) : StepsRun[k].step \in StepsAsked
    /\ \A k \in 1..Len(StepsRun) : \A l \in 1..Len(StepsRun) :
          k < l => /\ StepsRun[k].step < StepsRun[l].step
                   /\ StepsRun[k].outcome = "ok"
    /\ \A k \in 1..Len(StepsRun) :
          \A r \in StepsAsked : r < StepsRun[k].step =>
             \E l \in 1..k : StepsRun[l].step = r
    /\ orchestrator.stage \in {"summary", "exited"} /\ StepsRun # <<>> =>
          \/ StepsRun[Len(StepsRun)].outcome # "ok"
          \/ {StepsRun[k].step : k \in 1..Len(StepsRun)} = StepsAsked

\* steps asked for out of order: the run went 1, 2 and stopped at the
\* failure of 2, with 3 still to go
C38_Witness ==
    /\ orchestrator.stage = "exited"
    /\ orchestrator.arg_steps = <<2, 1, 3>>
    /\ Len(StepsRun) = 2
    /\ StepsRun[Len(StepsRun)].outcome = "timed out"
    /\ StepsRun[Len(StepsRun)].step = 2
    /\ orchestrator.exit_code = 1


====
